---- MODULE Spec2Model ----
(***************************************************************************)
(* Invoice verification workflow of the bot in src/index.js: the           *)
(* invoice_modal branch of the InteractionCreate handler, the status       *)
(* extractor extractInvoiceStatus, and the two SQLite tables verifications *)
(* and role_mappings.                                                      *)
(*                                                                         *)
(* JavaScript strings are sequences of one-character strings, so that      *)
(* trim() and toUpperCase() are computed.  A value that may be null is an  *)
(* option: <<>> is null, <<v>> is the value v.  A JSON value is a tagged   *)
(* record (k is the tag).                                                  *)
(***************************************************************************)
EXTENDS Integers, Sequences, FiniteSets, TLC

(* ------------------------------------------------------------------ *)
(* Bounds of the model                                                 *)
(* ------------------------------------------------------------------ *)
\* number of invoice_modal submissions (verify attempts) in one behaviour
MaxAttempts == 2
\* role positions (ranks) range over 0..MaxPos
MaxPos == 1

(* ------------------------------------------------------------------ *)
(* Options and JavaScript strings                                      *)
(* ------------------------------------------------------------------ *)
None == <<>>
Some(v) == <<v>>

\* the elements of a sequence
Range(f) == { f[i] : i \in DOMAIN f }

Whitespace == {" ", "\t", "\n"}

RECURSIVE TrimStart(_)
TrimStart(s) ==
  IF s # <<>> /\ Head(s) \in Whitespace THEN TrimStart(Tail(s)) ELSE s

RECURSIVE TrimEnd(_)
TrimEnd(s) ==
  IF s # <<>> /\ s[Len(s)] \in Whitespace
  THEN TrimEnd(SubSeq(s, 1, Len(s) - 1))
  ELSE s

\* String.prototype.trim
Trim(s) == TrimEnd(TrimStart(s))

LowerLetters ==
  << "a", "b", "c", "d", "e", "f", "g", "h", "i", "j", "k", "l", "m",
     "n", "o", "p", "q", "r", "s", "t", "u", "v", "w", "x", "y", "z" >>

UpperLetters ==
  << "A", "B", "C", "D", "E", "F", "G", "H", "I", "J", "K", "L", "M",
     "N", "O", "P", "Q", "R", "S", "T", "U", "V", "W", "X", "Y", "Z" >>

UpperChar(c) ==
  IF \E i \in 1..Len(LowerLetters) : LowerLetters[i] = c
  THEN UpperLetters[CHOOSE i \in 1..Len(LowerLetters) : LowerLetters[i] = c]
  ELSE c

\* String.prototype.toUpperCase
toUpperCase(s) == [i \in 1..Len(s) |-> UpperChar(s[i])]

(* ------------------------------------------------------------------ *)
(* JSON values                                                         *)
(* ------------------------------------------------------------------ *)
Undef == [k |-> "undef"]
Null == [k |-> "null"]
Str(s) == [k |-> "str", s |-> s]
Num(n) == [k |-> "num", n |-> n]
Obj(m) == [k |-> "obj", m |-> m]
Arr(a) == [k |-> "arr", a |-> a]

\* v.f in JavaScript, for a v that is neither null nor undefined
Get(v, f) == IF v.k = "obj" /\ f \in DOMAIN v.m THEN v.m[f] ELSE Undef

\* ToBoolean(v)
Truthy(v) ==
  CASE v.k = "undef" -> FALSE
    [] v.k = "null" -> FALSE
    [] v.k = "str" -> v.s # <<>>
    [] v.k = "num" -> v.n # 0
    [] OTHER -> TRUE

\* v && typeof v === 'object'
IsObject(v) == v.k \in {"obj", "arr"}

\* the string tested without trimming it
NonEmptyStr_NoTrim(v) == v.k = "str" /\ v.s # <<>>

\* typeof v === 'string' && v.trim()
NonEmptyStr(v) == v.k = "str" /\ Trim(v.s) # <<>>

\* Array.isArray(v)
IsArray(v) == v.k = "arr"

\* v.f raises a TypeError when v is null or undefined
ReadRaises(v) == v.k \in {"null", "undef"}

\* the guard "h &&" in front of h.status: the element is read only when it
\* is truthy
ElementGuard_Missing(h) == TRUE

ElementGuard(h) == Truthy(h)

\* h && typeof h.status === 'string' && h.status.trim()
HasStatusStr(h) == ElementGuard(h) /\ NonEmptyStr(Get(h, "status"))

\* the same test raises when it reads h.status of a null or undefined h
ElementRaises(h) == ElementGuard(h) /\ ReadRaises(h)

\* the scan started at the first element instead of the last
ScanBackward_FirstWins(a, i) ==
  LET usable == { j \in 1..i : HasStatusStr(a[j]) }
  IN IF usable = {} THEN None
     ELSE Some(Trim(Get(a[CHOOSE j \in usable : \A l \in usable : j <= l],
                        "status").s))

\* for (let i = a.length - 1; i >= 0; i--) ... return h.status.trim()
RECURSIVE ScanBackward(_, _)
ScanBackward(a, i) ==
  IF i < 1 THEN None
  ELSE IF HasStatusStr(a[i]) THEN Some(Trim(Get(a[i], "status").s))
  ELSE ScanBackward(a, i - 1)

\* for (const it of a) ... return it.status.trim()
RECURSIVE ScanForward(_, _)
ScanForward(a, i) ==
  IF i > Len(a) THEN None
  ELSE IF HasStatusStr(a[i]) THEN Some(Trim(Get(a[i], "status").s))
  ELSE ScanForward(a, i + 1)

\* the block guarded by: invoice.status && typeof invoice.status === 'object'
StatusObjectProbe(s) ==
  LET ss == Get(s, "status")
      hist == Get(s, "history")
  IN IF NonEmptyStr(ss) THEN Some(Trim(ss.s))
     ELSE IF IsObject(ss) /\ NonEmptyStr(Get(ss, "status"))
          THEN Some(Trim(Get(ss, "status").s))
     ELSE IF IsArray(hist) /\ Len(hist.a) > 0
          THEN ScanBackward(hist.a, Len(hist.a))
     ELSE None

altKeys_TextFirst == << "status_text", "payment_status", "state" >>

altKeys == << "state", "payment_status", "status_text" >>

RECURSIVE AltKeysProbe(_, _)
AltKeysProbe(invoice, i) ==
  IF i > Len(altKeys) THEN None
  ELSE LET v == Get(invoice, altKeys[i])
       IN IF NonEmptyStr(v) THEN Some(Trim(v.s))
          ELSE IF IsObject(v) /\ NonEmptyStr(Get(v, "status"))
               THEN Some(Trim(Get(v, "status").s))
          ELSE AltKeysProbe(invoice, i + 1)

\* a chain of exclusive branches: a rule that applies and finds nothing
\* ends the probe
extractInvoiceStatus_DeadEnd(invoice) ==
  IF ~Truthy(invoice) THEN None
  ELSE
    LET st == Get(invoice, "status")
        hist == Get(invoice, "history")
        items == Get(invoice, "items")
        r4 == AltKeysProbe(invoice, 1)
    IN IF NonEmptyStr(st) THEN Some(Trim(st.s))
       ELSE IF IsObject(st) THEN StatusObjectProbe(st)
       ELSE IF IsArray(hist) /\ Len(hist.a) > 0
            THEN ScanBackward(hist.a, Len(hist.a))
       ELSE IF r4 # None THEN r4
       ELSE IF IsArray(items) THEN ScanForward(items.a, 1)
       ELSE None

\* document.history probed before document.status
extractInvoiceStatus_HistoryFirst(invoice) ==
  IF ~Truthy(invoice) THEN None
  ELSE
    LET st == Get(invoice, "status")
        hist == Get(invoice, "history")
        items == Get(invoice, "items")
        r2 == IF IsObject(st) THEN StatusObjectProbe(st) ELSE None
        r3 == IF IsArray(hist) /\ Len(hist.a) > 0
              THEN ScanBackward(hist.a, Len(hist.a))
              ELSE None
        r4 == AltKeysProbe(invoice, 1)
        r5 == IF IsArray(items) THEN ScanForward(items.a, 1) ELSE None
    IN IF NonEmptyStr(st) THEN Some(Trim(st.s))
       ELSE IF r3 # None THEN r3
       ELSE IF r2 # None THEN r2
       ELSE IF r4 # None THEN r4
       ELSE r5

extractInvoiceStatus(invoice) ==
  IF ~Truthy(invoice) THEN None
  ELSE
    LET st == Get(invoice, "status")
        hist == Get(invoice, "history")
        items == Get(invoice, "items")
        r2 == IF IsObject(st) THEN StatusObjectProbe(st) ELSE None
        r3 == IF IsArray(hist) /\ Len(hist.a) > 0
              THEN ScanBackward(hist.a, Len(hist.a))
              ELSE None
        r4 == AltKeysProbe(invoice, 1)
        r5 == IF IsArray(items) THEN ScanForward(items.a, 1) ELSE None
    IN IF NonEmptyStr(st) THEN Some(Trim(st.s))
       ELSE IF r2 # None THEN r2
       ELSE IF r3 # None THEN r3
       ELSE IF r4 # None THEN r4
       ELSE r5

\* Whether the call raises instead of returning: the property reads of
\* extractInvoiceStatus in the order the code makes them, each behind the
\* guards the code puts in front of it.
RECURSIVE ScanBackwardRaises(_, _)
ScanBackwardRaises(a, i) ==
  IF i < 1 THEN FALSE
  ELSE IF ElementRaises(a[i]) THEN TRUE
  ELSE IF HasStatusStr(a[i]) THEN FALSE
  ELSE ScanBackwardRaises(a, i - 1)

RECURSIVE ScanForwardRaises(_, _)
ScanForwardRaises(a, i) ==
  IF i > Len(a) THEN FALSE
  ELSE IF ElementRaises(a[i]) THEN TRUE
  ELSE IF HasStatusStr(a[i]) THEN FALSE
  ELSE ScanForwardRaises(a, i + 1)

\* s.status, s.status.status and s.history[i].status, for a truthy object s
StatusObjectRaises(s) ==
  LET ss == Get(s, "status")
      hist == Get(s, "history")
  IN IF ReadRaises(s) THEN TRUE
     ELSE IF NonEmptyStr(ss) THEN FALSE
     ELSE IF Truthy(ss) /\ IsObject(ss) /\ ReadRaises(ss) THEN TRUE
     ELSE IF IsObject(ss) /\ NonEmptyStr(Get(ss, "status")) THEN FALSE
     ELSE IF IsArray(hist) /\ Len(hist.a) > 0
          THEN ScanBackwardRaises(hist.a, Len(hist.a))
     ELSE FALSE

\* invoice[k] and invoice[k].status for the keys of altKeys
RECURSIVE AltKeysRaises(_, _)
AltKeysRaises(invoice, i) ==
  IF i > Len(altKeys) THEN FALSE
  ELSE LET v == Get(invoice, altKeys[i])
       IN IF NonEmptyStr(v) THEN FALSE
          ELSE IF Truthy(v) /\ IsObject(v) /\ ReadRaises(v) THEN TRUE
          ELSE IF IsObject(v) /\ NonEmptyStr(Get(v, "status")) THEN FALSE
          ELSE AltKeysRaises(invoice, i + 1)

extractInvoiceStatusRaises(invoice) ==
  IF ~Truthy(invoice) THEN FALSE
  ELSE IF ReadRaises(invoice) THEN TRUE
  ELSE
    LET st == Get(invoice, "status")
        hist == Get(invoice, "history")
        items == Get(invoice, "items")
    IN IF NonEmptyStr(st) THEN FALSE
       ELSE IF IsObject(st) /\ StatusObjectRaises(st) THEN TRUE
       ELSE IF IsObject(st) /\ StatusObjectProbe(st) # None THEN FALSE
       ELSE IF IsArray(hist) /\ Len(hist.a) > 0
               /\ ScanBackwardRaises(hist.a, Len(hist.a)) THEN TRUE
       ELSE IF IsArray(hist) /\ Len(hist.a) > 0
               /\ ScanBackward(hist.a, Len(hist.a)) # None THEN FALSE
       ELSE IF AltKeysRaises(invoice, 1) THEN TRUE
       ELSE IF AltKeysProbe(invoice, 1) # None THEN FALSE
       ELSE Truthy(items) /\ IsArray(items) /\ ScanForwardRaises(items.a, 1)

\* what a call of extractInvoiceStatus does: it raises, or it returns a value
CallExtract(invoice) ==
  IF extractInvoiceStatusRaises(invoice)
  THEN [raised |-> TRUE, value |-> None]
  ELSE [raised |-> FALSE, value |-> extractInvoiceStatus(invoice)]

(* ------------------------------------------------------------------ *)
(* Status validation and product id resolution (invoice_modal branch)  *)
(* ------------------------------------------------------------------ *)
validStatuses ==
  { << "P", "A", "I", "D" >>,
    << "C", "O", "M", "P", "L", "E", "T", "E", "D" >>,
    << "F", "U", "L", "F", "I", "L", "L", "E", "D" >>,
    << "S", "U", "C", "C", "E", "S", "S" >> }

\* the status kept as extracted
NormalizeStatus_NoUpperCase(invoice) == extractInvoiceStatus(invoice)

\* let currentStatus = extractInvoiceStatus(invoice);
\* if (currentStatus) currentStatus = String(currentStatus).toUpperCase();
NormalizeStatus(invoice) ==
  LET raw == extractInvoiceStatus(invoice)
  IN IF raw # None /\ raw[1] # <<>> THEN Some(toUpperCase(raw[1])) ELSE raw

\* only the absent status rejected
NotEligibleStatus_AbsentOnly(currentStatus) ==
  \/ currentStatus = None
  \/ currentStatus[1] = <<>>

\* !currentStatus || !validStatuses.includes(currentStatus)
NotEligibleStatus(currentStatus) ==
  \/ currentStatus = None
  \/ currentStatus[1] = <<>>
  \/ currentStatus[1] \notin validStatuses

Digits == << "0", "1", "2", "3", "4", "5", "6", "7", "8", "9" >>

RECURSIVE NatToString(_)
NatToString(n) ==
  IF n < 10 THEN << Digits[n + 1] >>
  ELSE NatToString(n \div 10) \o << Digits[(n % 10) + 1] >>

\* String(v) for the strings and non-negative integers of the model
JsString(v) == IF v.k = "num" THEN NatToString(v.n) ELSE v.s

\* the fields of the item tried in the opposite order
FirstItemProductId_SkuFirst(it) ==
  IF Truthy(Get(it, "sku")) THEN Some(JsString(Get(it, "sku")))
  ELSE IF Truthy(Get(it, "id")) THEN Some(JsString(Get(it, "id")))
  ELSE IF Truthy(Get(it, "product_id"))
       THEN Some(JsString(Get(it, "product_id")))
  ELSE None

\* it.product_id || it.id || it.sku || null
FirstItemProductId(it) ==
  IF Truthy(Get(it, "product_id")) THEN Some(JsString(Get(it, "product_id")))
  ELSE IF Truthy(Get(it, "id")) THEN Some(JsString(Get(it, "id")))
  ELSE IF Truthy(Get(it, "sku")) THEN Some(JsString(Get(it, "sku")))
  ELSE None

\* The productId block.  threw: reading a property of a null or undefined
\* first item raises a TypeError.
ResolveProductId(invoice) ==
  LET pid == Get(invoice, "product_id")
      items == Get(invoice, "items")
  IN IF Truthy(pid) THEN [threw |-> FALSE, productId |-> Some(JsString(pid))]
     ELSE IF IsArray(items) /\ Len(items.a) > 0
          THEN IF items.a[1].k \in {"null", "undef"}
               THEN [threw |-> TRUE, productId |-> None]
               ELSE [threw |-> FALSE, productId |-> FirstItemProductId(items.a[1])]
     ELSE [threw |-> FALSE, productId |-> None]

\* const invoice = resp.data?.data ?? resp.data ?? null;
UnwrapInvoice(data) ==
  IF data.k \in {"null", "undef"} THEN Null
  ELSE IF Get(data, "data").k \notin {"null", "undef"} THEN Get(data, "data")
  ELSE data

(* ------------------------------------------------------------------ *)
(* Inputs                                                              *)
(* ------------------------------------------------------------------ *)
sPaid == << "p", "a", "i", "d" >>
sPaidMixed == << " ", "P", "a", "i", "d", " " >>
sSuccess == << "S", "u", "c", "c", "e", "s", "s" >>
sPending == << "p", "e", "n", "d", "i", "n", "g" >>
p1 == << "p", "1" >>
p2 == << "p", "2" >>

\* Response bodies (resp.data) of a 2xx answer of the commerce API: absent,
\* empty, an envelope without a document, and documents, bare or in a data
\* envelope
Bodies ==
  << Null,
     Str(<<>>),
     Obj([data |-> Null]),
     Obj([status |-> Str(sPaid), product_id |-> Str(p1)]),
     Obj([data |-> Obj([status |-> Str(sPaidMixed), product_id |-> Str(p1)])]),
     Obj([status |-> Obj([status |-> Str(sPaid)]),
          items |-> Arr(<< Obj([id |-> Str(p1)]),
                          Obj([product_id |-> Str(p2)]) >>)]),
     Obj([state |-> Str(sSuccess)]),
     Obj([status |-> Str(sPending), product_id |-> Str(p1)]),
     Obj([status |-> Str(<< " " >>),
          items |-> Arr(<< Obj([status |-> Str(sPending)]) >>)]),
     Obj([status |-> Str(sPaid), items |-> Arr(<< Null >>)]) >>

\* Rejections of axios.get: response is the HTTP status of a non-2xx answer,
\* or absent for a network failure or the 10 s timeout
ApiErrors ==
  { [response |-> << 401 >>, code |-> "ERR_BAD_REQUEST"],
    [response |-> << 404 >>, code |-> "ERR_BAD_REQUEST"],
    [response |-> << 500 >>, code |-> "ERR_BAD_RESPONSE"],
    [response |-> <<>>, code |-> "ERR_NETWORK"],
    [response |-> <<>>, code |-> "ECONNABORTED"] }

\* the TypeError raised inside the try block
TypeError == [response |-> <<>>, code |-> "TypeError"]

\* raw values of the invoice_id text input
RawInvoiceIds ==
  { <<>>, << " " >>, << "x" >>, << " ", "x", " " >>, << "y" >> }

\* Invoice ids are named in order of first use: the first submission does
\* not use the second name.
SubmitInputs(p) ==
  IF p = 1 THEN RawInvoiceIds \ { << "y" >> } ELSE RawInvoiceIds

\* interaction.user.id of the p-th submission
Users == << "u1", "u2" >>
SubmitterOf(p) == Users[((p - 1) % Len(Users)) + 1]

\* contents the role_mappings table may have (product_id is its primary
\* key, role_id is NOT NULL and may be the empty string)
RoleMappingTables ==
  { {}, { [product_id |-> p1, role_id |-> "r1"] },
    { [product_id |-> p1, role_id |-> ""] } }

\* values of the environment variable VERIFY_ROLE_ID ("" when unset or empty)
DefaultRoles == {"", "r9"}

\* Deployments: the role_mappings table and VERIFY_ROLE_ID the process
\* starts with.  Either nothing is configured, or a default role and a
\* mapping table are.
Configurations ==
  { c \in RoleMappingTables \X DefaultRoles : (c[1] = {}) <=> (c[2] = "") }

\* permission sets the bot member may hold
PermissionSets ==
  { {}, {"ManageRoles"}, {"Administrator"}, {"KickMembers"} }

\* PermissionsBitField.has(flag): Administrator implies every permission
PermissionsHas(perms, flag) == flag \in perms \/ "Administrator" \in perms

(* ------------------------------------------------------------------ *)
(* State                                                               *)
(* ------------------------------------------------------------------ *)
VARIABLES
  verifications,   \* table verifications: sequence of rows, row id = index
  role_mappings,   \* table role_mappings: set of rows
  VERIFY_ROLE_ID,  \* process.env.VERIFY_ROLE_ID, "" when not configured
  att,             \* per verify attempt: the locals of its handler
  memberRoles,     \* role additions performed by member.roles.add
  buttonCooldown,  \* the Map buttonCooldown: user id -> time of last accepted press
  clock,           \* Date.now()
  neverPruned,     \* the same Map as it would be had no prune ever run
  lastPress,       \* the last press of the verify button and its decision
  doc,             \* the document extractInvoiceStatus is called with
  extracted,       \* <<>> before the call, then << what the call did >>
  moderation       \* [last, guild]: the last moderation command handled
                   \* (its inputs, reply and platform calls) and the guild

\* the variables of the invoice_modal workflow, of the verify button and its
\* cooldown, and of a call of extractInvoiceStatus
workflowVars ==
  << verifications, role_mappings, VERIFY_ROLE_ID, att, memberRoles >>
cooldownVars == << buttonCooldown, clock, neverPruned, lastPress >>
extractVars == << doc, extracted >>

moderationVars == << moderation >>

vars == << workflowVars, cooldownVars, extractVars, moderationVars >>

BUTTON_COOLDOWN_MS == 15000

\* Date.now() when the process starts: milliseconds since 1970, far above
\* the cooldown window
StartClock == BUTTON_COOLDOWN_MS * 100

\* new Map()
EmptyMap == [k \in {} |-> 0]

\* no button pressed yet
NoPress ==
  [ user |-> "", accepted |-> FALSE, expected |-> FALSE, wait |-> 0,
    pruned |-> FALSE ]

\* the verify button and its cooldown right after the process started
CooldownIdle ==
  /\ buttonCooldown = EmptyMap
  /\ clock = StartClock
  /\ neverPruned = EmptyMap
  /\ lastPress = NoPress

\* no call of extractInvoiceStatus under way
ExtractIdle ==
  /\ doc = Null
  /\ extracted = <<>>

\* no moderation command handled yet
NoCommand ==
  [ command |-> "", perms |-> {}, user |-> None, arg |-> None,
    reply |-> "", calls |-> << >> ]

\* the guild as the moderation commands see it: the messages of the target
\* channel, the members, the timeout of each account (minutes, 0 for none)
\* and the ban list
Guild(messages) ==
  [ messages |-> messages,
    members  |-> Range(Users),
    timedOut |-> [ u \in Range(Users) |-> 0 ],
    banned   |-> {} ]

ModerationIdle == moderation = [ last |-> NoCommand, guild |-> Guild(0) ]

Attempts == 1..MaxAttempts

\* Locals of one handler invocation.
\*   pc: where it is suspended
\*     idle       not submitted yet
\*     dedup      db.get on verifications pending
\*     fetch      axios.get pending
\*     maplookup  db.get on role_mappings pending
\*     insert     db.run INSERT pending
\*     grant      INSERT done, grant stage (members.fetch .. roles.add) pending
\*     done       replied
\*   calls: the external calls it has issued, in order
\*   row: the dedup lookup returned a row
\*   noInvoice: axios.get resolved and the invoice taken from it was falsy
\*   apiErr: the error caught by catch (apiErr), if any
\*   inserted: its INSERT succeeded
\*   dbErr: the error code its INSERT failed with, if it failed
\*   seen: what the grant stage found: the member, a bot member holding
\*     Manage Roles, the role (FALSE for what it did not look at)
\*   rank: how the bot's highest role position compared with the target
\*     role's position, when the grant stage compared them
IdleAttempt ==
  [ pc |-> "idle", user |-> "", invoiceId |-> <<>>, currentStatus |-> None,
    productId |-> None, roleIdStr |-> "", reply |-> "", calls |-> <<>>,
    row |-> FALSE, noInvoice |-> FALSE, apiErr |-> None, inserted |-> FALSE,
    rank |-> "", dbErr |-> "",
    seen |-> [member |-> FALSE, capable |-> FALSE, role |-> FALSE] ]

Init ==
  /\ verifications = <<>>
  /\ \E c \in Configurations :
       /\ role_mappings = c[1]
       /\ VERIFY_ROLE_ID = c[2]
  /\ att = [p \in Attempts |-> IdleAttempt]
  /\ memberRoles = {}
  /\ CooldownIdle
  /\ ExtractIdle
  /\ ModerationIdle

\* outcomes whose message interpolates currentStatus, and roleIdStr
RepliesWithStatus == {"NotEligible", "Granted"}
RepliesWithRole == {"Granted"}

\* interaction.reply / interaction.editReply: the attempt ends with one
\* message.  Locals the message does not carry are dead from here on and are
\* reset.
Finish(a, outcome) ==
  [a EXCEPT !.pc = "done", !.reply = outcome,
            !.productId = None,
            !.currentStatus = IF outcome \in RepliesWithStatus THEN @ ELSE None,
            !.roleIdStr = IF outcome \in RepliesWithRole THEN @ ELSE ""]

\* the rank failure reported as a plain error
Qualifier_RankAsError(outcome) ==
  CASE outcome = "Granted" -> "verified"
    [] outcome \in {"MemberNotFound", "InsufficientPermission", "RoleNotFound",
                    "GrantFailed", "NoRoleConfigured"}
         -> "verified_but"
    [] OTHER -> "error"

\* Classification of the reply texts of the branch:
\*   "verified"      the success message
\*   "verified_but"  a message starting with "Invoice verified but"
\*   "error"         every other message
Qualifier(outcome) ==
  CASE outcome = "Granted" -> "verified"
    [] outcome \in {"MemberNotFound", "InsufficientPermission", "RoleNotFound",
                    "RoleRankTooLow", "GrantFailed", "NoRoleConfigured"}
         -> "verified_but"
    [] OTHER -> "error"

\* SELECT ... FROM verifications WHERE invoice_id = ?
SelectVerification(table, invoiceId) ==
  { i \in 1..Len(table) : table[i].invoice_id = invoiceId }

\* SELECT role_id FROM role_mappings WHERE product_id = ?
SelectRoleMapping(table, productId) ==
  { r \in table : r.product_id = productId }

\* a constraint that never rejects a row
UniqueViolation_Never(table, invoiceId) == FALSE

\* the UNIQUE constraint on verifications.invoice_id
UniqueViolation(table, invoiceId) ==
  \E i \in 1..Len(table) : table[i].invoice_id = invoiceId

(* ------------------------------------------------------------------ *)
(* Actions                                                             *)
(* ------------------------------------------------------------------ *)
\* the input taken without trim()
InputInvoiceId_NoTrim(raw) == raw

\* const invoiceId = (getTextInputValue('invoice_id') || '').trim()
InputInvoiceId(raw) == Trim(raw)

\* Modal submit: trim the input, reject an empty id, else defer the reply
\* and issue the dedup lookup.  Attempts are numbered in order of submission.
Submit(p, raw, deferOk) ==
  /\ att[p].pc = "idle"
  /\ IF p = 1 THEN TRUE ELSE att[p - 1].pc # "idle"
  /\ LET invoiceId == InputInvoiceId(raw)
         a0 == [att[p] EXCEPT !.user = SubmitterOf(p), !.invoiceId = invoiceId]
     IN att' = [att EXCEPT ![p] =
          IF invoiceId = <<>> THEN Finish(a0, "InvalidInput")
          ELSE IF ~deferOk THEN Finish(a0, "InteractionError")
          ELSE [a0 EXCEPT !.pc = "dedup", !.calls = << "db.get" >>]]
  /\ UNCHANGED << verifications, role_mappings, VERIFY_ROLE_ID, memberRoles >>
  /\ UNCHANGED << cooldownVars, extractVars, moderationVars >>

\* a callback that records the row but does not return on it
DedupCallback_IgnoreRow(a, err, row) ==
  IF err THEN Finish(a, "DedupError")
  ELSE [a EXCEPT !.row = row, !.pc = "fetch", !.calls = Append(@, "axios.get")]

\* a callback that issues the lookup once more after an error
DedupCallback_RetryOnError(a, err, row) ==
  IF err
  THEN IF Len(a.calls) < 2
       THEN [a EXCEPT !.calls = Append(@, "db.get")]
       ELSE Finish(a, "DedupError")
  ELSE IF row THEN Finish([a EXCEPT !.row = TRUE], "AlreadyUsed")
  ELSE [a EXCEPT !.pc = "fetch", !.calls = Append(@, "axios.get")]

\* Callback of the dedup db.get, given whether the query failed and whether
\* it returned a row; on no row it issues axios.get.
DedupCallback(a, err, row) ==
  IF err THEN Finish(a, "DedupError")
  ELSE IF row THEN Finish([a EXCEPT !.row = TRUE], "AlreadyUsed")
  ELSE [a EXCEPT !.pc = "fetch", !.calls = Append(@, "axios.get")]

DedupLookup(p, err) ==
  /\ att[p].pc = "dedup"
  /\ LET rows == SelectVerification(verifications, att[p].invoiceId)
     IN att' = [att EXCEPT ![p] = DedupCallback(att[p], err, ~err /\ rows # {})]
  /\ UNCHANGED << verifications, role_mappings, VERIFY_ROLE_ID, memberRoles >>
  /\ UNCHANGED << cooldownVars, extractVars, moderationVars >>

\* assignRoleAndPersist(roleIdToUse): issues the INSERT
assignRoleAndPersist(a, roleIdToUse) ==
  [a EXCEPT !.pc = "insert", !.roleIdStr = roleIdToUse,
            !.calls = Append(@, "db.run")]

\* persisting before checking that a default role is configured
UseDefaultRole_PersistFirst(a, defaultRole) ==
  assignRoleAndPersist(a, defaultRole)

\* if (VERIFY_ROLE_ID) assignRoleAndPersist(VERIFY_ROLE_ID); else reply
UseDefaultRole(a, defaultRole) ==
  IF defaultRole # "" THEN assignRoleAndPersist(a, defaultRole)
  ELSE Finish(a, "NoRoleConfigured")

\* the catch block without the 404 case
ApiErrorOutcome_No404(apiErr) ==
  IF apiErr.response = << 401 >> THEN "Unauthorized"
  ELSE "UpstreamUnavailable"

\* catch (apiErr)
ApiErrorOutcome(apiErr) ==
  IF apiErr.response = << 401 >> THEN "Unauthorized"
  ELSE IF apiErr.response = << 404 >> THEN "NotFound"
  ELSE "UpstreamUnavailable"

\* no catch block: the error ends the handler without a reply
CatchApiErr_Uncaught(a, apiErr) ==
  [a EXCEPT !.pc = "done", !.apiErr = Some(apiErr)]

\* the catch block replies once
CatchApiErr(a, apiErr) ==
  Finish([a EXCEPT !.apiErr = Some(apiErr)], ApiErrorOutcome(apiErr))

\* The code after a resolved axios.get, up to the next asynchronous call.
AfterFetch(a, data, defaultRole) ==
  LET invoice == UnwrapInvoice(data)
      currentStatus == NormalizeStatus(invoice)
      pr == ResolveProductId(invoice)
      a0 == [a EXCEPT !.noInvoice = ~Truthy(invoice)]
      a1 == [a0 EXCEPT !.currentStatus = currentStatus]
      a2 == [a1 EXCEPT !.productId = pr.productId]
  IN IF ~Truthy(invoice) THEN Finish(a0, "NotFound")
     ELSE IF NotEligibleStatus(currentStatus) THEN Finish(a1, "NotEligible")
     ELSE IF pr.threw THEN CatchApiErr(a1, TypeError)
     ELSE IF pr.productId # None
          THEN [a2 EXCEPT !.pc = "maplookup",
                          !.calls = Append(@, "db.get.role_mappings")]
     ELSE UseDefaultRole(a2, defaultRole)

\* axios.get settles with a 2xx response carrying the body Bodies[b]
FetchOk(p, b) ==
  /\ att[p].pc = "fetch"
  /\ att' = [att EXCEPT ![p] = AfterFetch(att[p], Bodies[b], VERIFY_ROLE_ID)]
  /\ UNCHANGED << verifications, role_mappings, VERIFY_ROLE_ID, memberRoles >>
  /\ UNCHANGED << cooldownVars, extractVars, moderationVars >>

\* axios.get rejects
FetchFail(p, apiErr) ==
  /\ att[p].pc = "fetch"
  /\ att' = [att EXCEPT ![p] = CatchApiErr(att[p], apiErr)]
  /\ UNCHANGED << verifications, role_mappings, VERIFY_ROLE_ID, memberRoles >>
  /\ UNCHANGED << cooldownVars, extractVars, moderationVars >>

\* the default role preferred to the mapping
MapCallback_DefaultFirst(a, mapErr, rows, defaultRole) ==
  LET usable == { r \in rows : r.role_id # "" }
  IN IF defaultRole # "" THEN assignRoleAndPersist(a, defaultRole)
     ELSE IF ~mapErr /\ usable # {}
          THEN assignRoleAndPersist(a, (CHOOSE r \in usable : TRUE).role_id)
     ELSE Finish(a, "NoRoleConfigured")

\* Callback of the role_mappings db.get, given whether the query failed and
\* the rows it returned (mapRow is the first of them)
MapCallback(a, mapErr, rows, defaultRole) ==
  LET usable == { r \in rows : r.role_id # "" }
  IN IF mapErr THEN UseDefaultRole(a, defaultRole)
     ELSE IF usable # {}
          THEN assignRoleAndPersist(a, (CHOOSE r \in usable : TRUE).role_id)
     ELSE UseDefaultRole(a, defaultRole)

MapLookup(p, mapErr) ==
  /\ att[p].pc = "maplookup"
  /\ LET rows == IF mapErr THEN {}
                 ELSE SelectRoleMapping(role_mappings, att[p].productId[1])
     IN att' = [att EXCEPT ![p] =
                  MapCallback(att[p], mapErr, rows, VERIFY_ROLE_ID)]
  /\ UNCHANGED << verifications, role_mappings, VERIFY_ROLE_ID, memberRoles >>
  /\ UNCHANGED << cooldownVars, extractVars, moderationVars >>

\* The row the INSERT writes
NewRow(a) ==
  [ invoice_id |-> a.invoiceId, discord_id |-> a.user,
    product_id |-> a.productId, role_id |-> a.roleIdStr,
    status |-> a.currentStatus[1] ]

\* INSERT without the UNIQUE constraint on invoice_id
InsertVerification_NoUnique(table, newRow) == Append(table, newRow)

\* INSERT OR REPLACE: a conflicting row overwrites the existing one
InsertVerification_Replace(table, newRow) ==
  IF \E i \in 1..Len(table) : table[i].invoice_id = newRow.invoice_id
  THEN [i \in 1..Len(table) |->
          IF table[i].invoice_id = newRow.invoice_id THEN newRow ELSE table[i]]
  ELSE Append(table, newRow)

\* INSERT INTO verifications: the table after the statement, unchanged when
\* the UNIQUE constraint rejects the row
InsertVerification(table, newRow) ==
  IF UniqueViolation(table, newRow.invoice_id) THEN table
  ELSE Append(table, newRow)

\* the row is written although the statement reports an error
RunInsert_PartialWrite(table, newRow, dbFail) ==
  InsertVerification(table, newRow)

\* a failing statement that empties the table
RunInsert_FailureClearsTable(table, newRow, dbFail) ==
  IF dbFail THEN <<>> ELSE InsertVerification(table, newRow)

\* db.run of the INSERT: the table after the statement.  dbFail: the
\* statement fails for a reason other than a constraint (I/O error, busy
\* database) and writes nothing.
RunInsert(table, newRow, dbFail) ==
  IF dbFail THEN table ELSE InsertVerification(table, newRow)

\* dbErr.code handed to the callback of the INSERT, "" for no error
InsertError(table, newRow, dbFail) ==
  IF dbFail THEN "SQLITE_IOERR"
  ELSE IF UniqueViolation(table, newRow.invoice_id) THEN "SQLITE_CONSTRAINT"
  ELSE ""

\* the grant stage entered whether or not the INSERT succeeded
InsertCallback_GrantAnyway(a, dbErr) ==
  [a EXCEPT !.pc = "grant", !.inserted = (dbErr = ""), !.dbErr = dbErr]

\* every error of the INSERT reported as a concurrent use
InsertCallback_AnyErrorConcurrent(a, dbErr) ==
  IF dbErr # ""
  THEN Finish([a EXCEPT !.dbErr = dbErr], "ConcurrentlyUsed")
  ELSE [a EXCEPT !.pc = "grant", !.inserted = TRUE]

\* Callback of the INSERT up to its try block: dbErr handling
InsertCallback(a, dbErr) ==
  IF dbErr # ""
  THEN IF dbErr = "SQLITE_CONSTRAINT"
       THEN Finish([a EXCEPT !.dbErr = dbErr], "ConcurrentlyUsed")
       ELSE Finish([a EXCEPT !.dbErr = dbErr], "SaveError")
  ELSE [a EXCEPT !.pc = "grant", !.inserted = TRUE]

\* The INSERT executes and its callback handles dbErr.
Insert(p, dbFail) ==
  /\ att[p].pc = "insert"
  /\ verifications' = RunInsert(verifications, NewRow(att[p]), dbFail)
  /\ att' = [att EXCEPT ![p] =
       InsertCallback(att[p],
                      InsertError(verifications, NewRow(att[p]), dbFail))]
  /\ UNCHANGED << role_mappings, VERIFY_ROLE_ID, memberRoles >>
  /\ UNCHANGED << cooldownVars, extractVars, moderationVars >>

\* the comparison with < in place of <=
RankTooLow_Strict(mePos, rolePos) == mePos < rolePos

\* me.roles.highest.position <= role.position
RankTooLow(mePos, rolePos) == mePos <= rolePos

\* the role looked up before the permission check
GrantOutcome_RoleBeforePermission(hasGuild, member, me, perms, role, mePos, rolePos, addOk) ==
  IF ~hasGuild THEN "GrantFailed"
  ELSE IF ~member THEN "MemberNotFound"
  ELSE IF ~role THEN "RoleNotFound"
  ELSE IF ~me \/ ~PermissionsHas(perms, "ManageRoles")
       THEN "InsufficientPermission"
  ELSE IF RankTooLow(mePos, rolePos) THEN "RoleRankTooLow"
  ELSE IF ~addOk THEN "GrantFailed"
  ELSE "Granted"

\* The checks of the grant stage, in the order of the code: the outcome, and
\* the platform calls issued.
\*   hasGuild  interaction.guild is not null (else a TypeError is caught)
\*   member    guild.members.fetch found the member
\*   me        guild.members.me is set; perms are its permissions
\*   role      the role is in the cache or fetched
\*   addOk     member.roles.add resolved (else it threw)
GrantOutcome(hasGuild, member, me, perms, role, mePos, rolePos, addOk) ==
  IF ~hasGuild THEN "GrantFailed"
  ELSE IF ~member THEN "MemberNotFound"
  ELSE IF ~me \/ ~PermissionsHas(perms, "ManageRoles")
       THEN "InsufficientPermission"
  ELSE IF ~role THEN "RoleNotFound"
  ELSE IF RankTooLow(mePos, rolePos) THEN "RoleRankTooLow"
  ELSE IF ~addOk THEN "GrantFailed"
  ELSE "Granted"

GrantCalls(hasGuild, member, me, perms, role, mePos, rolePos) ==
  IF ~hasGuild THEN <<>>
  ELSE IF member /\ me /\ PermissionsHas(perms, "ManageRoles") /\ role
          /\ ~RankTooLow(mePos, rolePos)
       THEN << "members.fetch", "roles.add" >>
  ELSE << "members.fetch" >>

\* one observation of the grant stage
GrantInput(hasGuild, member, me, perms, role, mePos, rolePos, addOk) ==
  [ hasGuild |-> hasGuild, member |-> member, me |-> me, perms |-> perms,
    role |-> role, mePos |-> mePos, rolePos |-> rolePos, addOk |-> addOk ]

\* What the grant stage may observe.  Fields the code does not read, because
\* an earlier check already decided the outcome, have their default value:
\* no guild; no member; no bot member; a bot member without the permission;
\* no role; a role, compared by position, and roles.add reached only when
\* the bot's position is high enough.
GrantInputs ==
  { GrantInput(FALSE, FALSE, FALSE, {}, FALSE, 0, 0, FALSE),
    GrantInput(TRUE, FALSE, FALSE, {}, FALSE, 0, 0, FALSE),
    GrantInput(TRUE, TRUE, FALSE, {}, FALSE, 0, 0, FALSE) }
  \cup { GrantInput(TRUE, TRUE, TRUE, perms, FALSE, 0, 0, FALSE) :
           perms \in PermissionSets }
  \cup { GrantInput(TRUE, TRUE, TRUE, perms, TRUE, mePos, rolePos, FALSE) :
           perms \in { ps \in PermissionSets : PermissionsHas(ps, "ManageRoles") },
           mePos \in 0..MaxPos, rolePos \in 0..MaxPos }
  \cup { GrantInput(TRUE, TRUE, TRUE, perms, TRUE, pos[1], pos[2], TRUE) :
           perms \in { ps \in PermissionSets : PermissionsHas(ps, "ManageRoles") },
           pos \in { pp \in (0..MaxPos) \X (0..MaxPos) :
                      ~RankTooLow(pp[1], pp[2]) } }

\* me.roles.highest.position against role.position
Compare(mePos, rolePos) ==
  IF mePos > rolePos THEN "higher"
  ELSE IF mePos = rolePos THEN "equal"
  ELSE "lower"

\* The try block of the INSERT callback: the grant stage.
Grant(p, g) ==
  /\ att[p].pc = "grant"
  /\ LET outcome == GrantOutcome(g.hasGuild, g.member, g.me, g.perms, g.role,
                                 g.mePos, g.rolePos, g.addOk)
         compared == g.role
         a0 == [att[p] EXCEPT
                  !.calls = @ \o GrantCalls(g.hasGuild, g.member, g.me, g.perms,
                                            g.role, g.mePos, g.rolePos),
                  !.rank = IF compared THEN Compare(g.mePos, g.rolePos)
                           ELSE "",
                  !.seen = [member |-> g.member,
                            capable |-> g.me /\ PermissionsHas(g.perms,
                                                               "ManageRoles"),
                            role |-> g.role]]
     IN /\ att' = [att EXCEPT ![p] = Finish(a0, outcome)]
        /\ memberRoles' =
             IF outcome = "Granted"
             THEN memberRoles \cup
                    { [ member |-> att[p].user, role |-> att[p].roleIdStr,
                        reason |-> att[p].invoiceId ] }
             ELSE memberRoles
  /\ UNCHANGED << verifications, role_mappings, VERIFY_ROLE_ID >>
  /\ UNCHANGED << cooldownVars, extractVars, moderationVars >>

Next ==
  \/ \E p \in Attempts : \E raw \in SubmitInputs(p), deferOk \in BOOLEAN :
       Submit(p, raw, deferOk)
  \/ \E p \in Attempts, err \in BOOLEAN : DedupLookup(p, err)
  \/ \E p \in Attempts, b \in 1..Len(Bodies) : FetchOk(p, b)
  \/ \E p \in Attempts, apiErr \in ApiErrors : FetchFail(p, apiErr)
  \/ \E p \in Attempts, mapErr \in BOOLEAN : MapLookup(p, mapErr)
  \/ \E p \in Attempts, dbFail \in BOOLEAN : Insert(p, dbFail)
  \/ \E p \in Attempts, g \in GrantInputs : Grant(p, g)

Spec == Init /\ [][Next]_vars

\* The pending call of attempt p settles: its callback or continuation runs.
Settle(p) ==
  \/ \E err \in BOOLEAN : DedupLookup(p, err)
  \/ \E b \in 1..Len(Bodies) : FetchOk(p, b)
  \/ \E apiErr \in ApiErrors : FetchFail(p, apiErr)
  \/ \E mapErr \in BOOLEAN : MapLookup(p, mapErr)
  \/ \E dbFail \in BOOLEAN : Insert(p, dbFail)
  \/ \E g \in GrantInputs : Grant(p, g)

\* Every call the handler awaits returns or fails: sqlite3 invokes each
\* callback, axios.get settles within its 10 s timeout, and the promises of
\* the platform calls settle.
FairSpec == Spec /\ \A p \in Attempts : WF_vars(Settle(p))

(* ------------------------------------------------------------------ *)
(* The verify button and its cooldown                                  *)
(* ------------------------------------------------------------------ *)
\* elapsed time explored, in cooldown windows
MaxWindows == 8

\* the workflow with nothing submitted and nothing configured
WorkflowIdle ==
  /\ verifications = <<>>
  /\ role_mappings = {}
  /\ VERIFY_ROLE_ID = ""
  /\ att = [p \in Attempts |-> IdleAttempt]
  /\ memberRoles = {}

\* buttonCooldown.get(user) || 0
LastPressOf(map, user) == IF user \in DOMAIN map THEN map[user] ELSE 0

\* buttonCooldown.set(user, now)
MapSet(map, user, now) ==
  [k \in DOMAIN map \cup {user} |-> IF k = user THEN now ELSE map[k]]

\* half the window
InCooldown_HalfWindow(diff) == diff < BUTTON_COOLDOWN_MS \div 2

\* diff < BUTTON_COOLDOWN_MS
InCooldown(diff) == diff < BUTTON_COOLDOWN_MS

\* Math.ceil((BUTTON_COOLDOWN_MS - diff) / 1000)
WaitSeconds(diff) == (BUTTON_COOLDOWN_MS - diff + 999) \div 1000

\* entries discarded after a fifth of the window
PruneExpired_Eager(now, v) == now - v > BUTTON_COOLDOWN_MS \div 5

\* now - v > BUTTON_COOLDOWN_MS * 5
PruneExpired(now, v) == now - v > BUTTON_COOLDOWN_MS * 5

\* the loop of the prune timer over buttonCooldown.entries()
Prune(map, now) ==
  [k \in { u \in DOMAIN map : ~PruneExpired(now, map[u]) } |-> map[k]]

\* amounts by which Date.now() moves between two events: a third of the
\* window, the window, four windows
ClockSteps ==
  { BUTTON_COOLDOWN_MS \div 3, BUTTON_COOLDOWN_MS, BUTTON_COOLDOWN_MS * 4 }

\* time passes; Date.now() does not decrease
Tick(d) ==
  /\ clock + d <= StartClock + MaxWindows * BUTTON_COOLDOWN_MS
  /\ clock' = clock + d
  /\ UNCHANGED << buttonCooldown, neverPruned, lastPress >>
  /\ UNCHANGED << workflowVars, extractVars, moderationVars >>

\* The verify_invoice_button branch up to showModal.  neverPruned follows
\* the same code on a Map that no prune touches; lastPress.pruned tells
\* that the Map had lost the entry of the account to a prune.
PressVerifyButton(user) ==
  LET now == clock
      diff == now - LastPressOf(buttonCooldown, user)
      refDiff == now - LastPressOf(neverPruned, user)
  IN /\ buttonCooldown' = IF InCooldown(diff) THEN buttonCooldown
                           ELSE MapSet(buttonCooldown, user, now)
     /\ neverPruned' = IF InCooldown(refDiff) THEN neverPruned
                        ELSE MapSet(neverPruned, user, now)
     /\ lastPress' = [ user |-> user,
                        accepted |-> ~InCooldown(diff),
                        expected |-> ~InCooldown(refDiff),
                        wait |-> IF InCooldown(diff) THEN WaitSeconds(diff)
                                 ELSE 0,
                        pruned |-> /\ user \in DOMAIN neverPruned
                                   /\ user \notin DOMAIN buttonCooldown ]
     /\ UNCHANGED clock
     /\ UNCHANGED << workflowVars, extractVars, moderationVars >>

\* the callback of setInterval(..., COOLDOWN_PRUNE_INTERVAL_MS); the timer
\* may fire late, so it may run at any time
PruneTimer ==
  /\ buttonCooldown' = Prune(buttonCooldown, clock)
  /\ UNCHANGED << clock, neverPruned, lastPress >>
  /\ UNCHANGED << workflowVars, extractVars, moderationVars >>

CooldownInit ==
  WorkflowIdle /\ CooldownIdle /\ ExtractIdle /\ ModerationIdle

CooldownNext ==
  \/ \E d \in ClockSteps : Tick(d)
  \/ \E user \in Range(Users) : PressVerifyButton(user)
  \/ PruneTimer

CooldownSpec == CooldownInit /\ [][CooldownNext]_vars

(* ------------------------------------------------------------------ *)
(* extractInvoiceStatus on documents of every shape                    *)
(* ------------------------------------------------------------------ *)
\* longest history array of the documents
MaxHistory == 2

\* the text found at a location of the document: a letter for the location
\* and one for the entry, so that the result tells where it was read
Text(loc, c) == << loc, c >>

Padded(t) == << " " >> \o t \o << " ", " " >>

Blank == << " ", " " >>

\* { status: "..." }
Entry(t) == Obj([status |-> Str(t)])

\* an object with the fields of f that are not undefined
Present(f) == Obj([x \in { y \in DOMAIN f : f[y].k # "undef" } |-> f[x]])

\* the elements of a history array: null, a number, an entry with a blank
\* status, and two usable entries, one of them with whitespace around
Elements(loc) ==
  { Null, Num(7), Entry(Blank), Entry(Text(loc, "x")),
    Entry(Padded(Text(loc, "y"))) }

\* every array of at most MaxHistory such elements
Arrays(loc) ==
  { Arr(a) : a \in UNION { [1..n -> Elements(loc)] : n \in 0..MaxHistory } }

\* invoice.status.status
NestedStatusValues ==
  { Undef, Null, Str(Blank), Str(Text("b", "x")),
    Entry(Text("c", "x")), Obj([status |-> Null]) }

\* invoice.status.history
NestedHistoryValues ==
  { Undef,
    Arr(<< Entry(Text("d", "x")), Entry(Text("d", "y")), Null >>),
    Arr(<< Null, Entry(Blank) >>) }

\* invoice.status
StatusValues ==
  { Undef, Null, Num(0), Str(Blank), Str(Padded(Text("a", "x"))), Arr(<< >>) }
  \cup { Present([status |-> ss, history |-> sh]) :
          ss \in NestedStatusValues, sh \in NestedHistoryValues }

\* invoice.history
HistoryValues ==
  { Undef, Null, Entry(Text("e", "z")) } \cup Arrays("e")

\* invoice.state, invoice.payment_status, invoice.status_text
AltValues ==
  { [state |-> Undef, payment_status |-> Undef, status_text |-> Undef],
    [state |-> Str(Padded(Text("f", "x"))), payment_status |-> Undef,
     status_text |-> Undef],
    [state |-> Undef, payment_status |-> Str(Text("g", "x")),
     status_text |-> Str(Text("h", "x"))],
    [state |-> Entry(Text("f", "y")), payment_status |-> Str(Text("g", "x")),
     status_text |-> Undef],
    [state |-> Null, payment_status |-> Obj([status |-> Null]),
     status_text |-> Entry(Text("h", "y"))],
    [state |-> Str(Blank), payment_status |-> Num(1),
     status_text |-> Arr(<< >>)] }

\* invoice.items
ItemsValues ==
  { Undef, Null, Num(3),
    Arr(<< Null, Entry(Padded(Text("i", "x"))), Entry(Text("i", "y")) >>),
    Arr(<< Num(7), Entry(Blank), Str(Text("i", "z")) >>) }

\* what the caller may pass: nothing, a value that is no mapping, or a
\* mapping with any of the probed fields
Documents ==
  { Undef, Null, Num(0), Num(5), Str(<< >>), Str(Text("a", "x")),
    Arr(<< Entry(Text("e", "x")) >>), Obj([id |-> Num(1)]) }
  \cup { Present([status |-> st, history |-> h, state |-> alt.state,
                  payment_status |-> alt.payment_status,
                  status_text |-> alt.status_text, items |-> it]) :
          st \in StatusValues, h \in HistoryValues, alt \in AltValues,
          it \in ItemsValues }

\* extractInvoiceStatus(invoice) is called with the document
Extract ==
  /\ extracted = << >>
  /\ extracted' = << CallExtract(doc) >>
  /\ UNCHANGED << doc, workflowVars, cooldownVars, moderationVars >>

ExtractInit ==
  /\ WorkflowIdle
  /\ CooldownIdle
  /\ doc \in Documents
  /\ extracted = << >>
  /\ ModerationIdle

ExtractNext == Extract

ExtractSpec == ExtractInit /\ [][ExtractNext]_vars

(* ------------------------------------------------------------------ *)
(* One verification attempt on a fetched document                      *)
(* ------------------------------------------------------------------ *)
\* a word in every mix of lower and upper case
CaseVariants(w) ==
  { [i \in 1..Len(w) |-> IF i \in S THEN UpperChar(w[i]) ELSE w[i]] :
      S \in SUBSET (1..Len(w)) }

\* status texts of the commerce API: the accepted ones, other ones, and
\* texts that differ from an accepted one by a letter
StatusWords ==
  { << "p", "a", "i", "d" >>,
    << "c", "o", "m", "p", "l", "e", "t", "e", "d" >>,
    << "f", "u", "l", "f", "i", "l", "l", "e", "d" >>,
    << "s", "u", "c", "c", "e", "s", "s" >>,
    << "p", "e", "n", "d", "i", "n", "g" >>,
    << "u", "n", "p", "a", "i", "d" >>,
    << "p", "a", "i", "d", "s" >>,
    << "p", "a", "i" >> }

StatusTexts == UNION { CaseVariants(w) : w \in StatusWords }

\* { status: "..." } for every status text
StatusDocuments == { Obj([status |-> Str(t)]) : t \in StatusTexts }

\* product identifiers of the fields of an item (p1 is the document's own)
pItem == << "p", "3" >>
pId == << "p", "4" >>
pSku == << "p", "5" >>

\* invoice.items[i]: null, values that are no mapping, and mappings with
\* any of product_id, id, sku (absent, empty, zero, or an identifier)
ItemValues ==
  { Null, Num(5), Str(pItem) }
  \cup { Present([product_id |-> a, id |-> b, sku |-> c]) :
          a \in { Undef, Str(<< >>), Str(pItem) },
          b \in { Undef, Num(0), Num(4), Str(pId) },
          c \in { Undef, Str(pSku) } }

\* invoice.items: absent, null, a mapping, and arrays of no, one or two
\* items, the second with a product_id of its own
ItemArrays ==
  { Undef, Null, Obj([product_id |-> Str(p2)]), Arr(<< >>) }
  \cup { Arr(<< it >>) : it \in ItemValues }
  \cup { Arr(<< it, Obj([product_id |-> Str(p2)]) >>) : it \in ItemValues }

\* invoice.product_id
ProductIdValues == { Undef, Null, Str(<< >>), Num(0), Num(7), Str(p1) }

\* documents with an accepted status and every shape of product_id and items
ProductDocuments ==
  { Present([status |-> Str(sPaid), product_id |-> pid, items |-> its]) :
      pid \in ProductIdValues, its \in ItemArrays }

\* the documents axios.get may resolve with
FetchedDocuments == StatusDocuments \cup ProductDocuments

\* axios.get settles with a 2xx response whose body is the document
FetchDocument(p) ==
  /\ att[p].pc = "fetch"
  /\ att' = [att EXCEPT ![p] = AfterFetch(att[p], doc, VERIFY_ROLE_ID)]
  /\ UNCHANGED << verifications, role_mappings, VERIFY_ROLE_ID, memberRoles >>
  /\ UNCHANGED << cooldownVars, extractVars, moderationVars >>

DocumentInit ==
  /\ verifications = << >>
  /\ \E c \in Configurations :
       /\ role_mappings = c[1]
       /\ VERIFY_ROLE_ID = c[2]
  /\ att = [p \in Attempts |-> IdleAttempt]
  /\ memberRoles = {}
  /\ CooldownIdle
  /\ doc \in FetchedDocuments
  /\ extracted = << >>
  /\ ModerationIdle

\* the first attempt alone, from the submission of the modal to its reply
DocumentNext ==
  \/ Submit(1, << "x" >>, TRUE)
  \/ DedupLookup(1, FALSE)
  \/ FetchDocument(1)
  \/ \E mapErr \in BOOLEAN : MapLookup(1, mapErr)
  \/ Insert(1, FALSE)
  \/ \E g \in GrantInputs : Grant(1, g)

DocumentSpec == DocumentInit /\ [][DocumentNext]_vars

(* ------------------------------------------------------------------ *)
(* Moderation commands: purge, timeout, untimeout, ban, unban          *)
(* (src/index.js 776-923).  Each handler is one action; the platform   *)
(* calls it makes are recorded in moderation.last.calls and their      *)
(* effect in moderation.guild.                                         *)
(* ------------------------------------------------------------------ *)

\* most messages the target channel holds
MaxMessages == 3

\* the limits the handlers test
MaxPurgeCount == 100
MaxTimeoutMinutes == 40320
MaxDeleteDays == 7

AdminRequired == "Admin permissions required."
SomethingWentWrong == "Something went wrong while processing your action."

\* interaction.member.permissions.has(PermissionsBitField.Flags.Administrator)
IsAdministrator(perms) == PermissionsHas(perms, "Administrator")

\* if (count < 1 || count > 100)
PurgeCountOutOfRange_NoUpperLimit(count) == count < 1

PurgeCountOutOfRange(count) == count < 1 \/ count > MaxPurgeCount

\* if (minutes < 1 || minutes > 40320)
TimeoutMinutesOutOfRange(minutes) == minutes < 1 \/ minutes > MaxTimeoutMinutes

\* interaction.options.getInteger('delete_days', false) || 0
DeleteDays(option) ==
  IF option = None \/ option[1] = 0 THEN 0 ELSE option[1]

\* if (deleteDays < 0 || deleteDays > 7)
DeleteDaysOutOfRange(deleteDays) == deleteDays < 0 \/ deleteDays > MaxDeleteDays

\* one call of the platform API with its numeric argument, if it has one
Call(api, arg) == [ api |-> api, arg |-> arg ]

\* the command as invoked, before the handler has replied
Invoked(command, perms, user, arg) ==
  [ command |-> command, perms |-> perms, user |-> user, arg |-> arg,
    reply |-> "", calls |-> << >> ]

\* the handler returns with this reply after these platform calls, leaving
\* the guild as given
Handled(h, reply, calls, guild) ==
  [ last  |-> [ h EXCEPT !.reply = reply, !.calls = calls ],
    guild |-> guild ]

\* targetChannel.messages.fetch({ limit: count }).catch(() => null): the
\* number of messages fetched, 0 when the fetch fails
Fetched(count, fetchOk) ==
  IF ~fetchOk THEN 0
  ELSE IF count < moderation.guild.messages THEN count
  ELSE moderation.guild.messages

\* the purge handler gets as far as bulkDelete
PurgeDeletes(perms, count, channelOk, deferOk, fetchOk) ==
  /\ IsAdministrator(perms)
  /\ channelOk
  /\ ~PurgeCountOutOfRange(count)
  /\ deferOk
  /\ Fetched(count, fetchOk) > 0

\* /purge.  bulkDelete(fetched, true) skips messages older than 14 days and,
\* when it fails, each message is deleted on its own with failures ignored:
\* `deleted` of the fetched messages are gone afterwards.
Purge(perms, count, channelOk, deferOk, fetchOk, bulkOk, deleted) ==
  LET h == Invoked("purge", perms, None, Some(count))
      g == moderation.guild
      deletes == PurgeDeletes(perms, count, channelOk, deferOk, fetchOk)
  IN
  /\ deleted <= (IF deletes THEN Fetched(count, fetchOk) ELSE 0)
  /\ moderation' =
       IF ~IsAdministrator(perms)
         THEN Handled(h, AdminRequired, << >>, g)
       ELSE IF ~channelOk
         THEN Handled(h, "Invalid target channel.", << >>, g)
       ELSE IF PurgeCountOutOfRange(count)
         THEN Handled(h, "Count must be between 1 and 100.", << >>, g)
       ELSE IF ~deferOk
         THEN Handled(h, SomethingWentWrong, << >>, g)
       ELSE IF Fetched(count, fetchOk) = 0
         THEN Handled(h, "No messages found to delete.",
                      << Call("messages.fetch", Some(count)) >>, g)
       ELSE Handled(h, "Deleted up to ${fetched.size} messages.",
                    << Call("messages.fetch", Some(count)),
                       Call("bulkDelete", Some(Fetched(count, fetchOk))) >>
                      \o (IF bulkOk THEN << >>
                          ELSE << Call("msg.delete", None) >>),
                    [ g EXCEPT !.messages = @ - deleted ])
  /\ UNCHANGED << workflowVars, cooldownVars, extractVars >>

\* /timeout.  durationMs = minutes * 60 * 1000 is kept in minutes.
Timeout(perms, user, minutes, deferOk, fetchOk, ok) ==
  LET h == Invoked("timeout", perms, Some(user), Some(minutes))
      g == moderation.guild
  IN
  /\ moderation' =
       IF ~IsAdministrator(perms)
         THEN Handled(h, AdminRequired, << >>, g)
       ELSE IF TimeoutMinutesOutOfRange(minutes)
         THEN Handled(h, "Minutes must be between 1 and 40320.", << >>, g)
       ELSE IF ~deferOk
         THEN Handled(h, SomethingWentWrong, << >>, g)
       ELSE IF ~(fetchOk /\ user \in g.members)
         THEN Handled(h, "User not found in this guild.",
                      << Call("members.fetch", None) >>, g)
       ELSE IF ~ok
         THEN Handled(h, "Failed to timeout user.",
                      << Call("members.fetch", None),
                         Call("member.timeout", Some(minutes)) >>, g)
       ELSE Handled(h, "${user.tag} has been timed out.",
                    << Call("members.fetch", None),
                       Call("member.timeout", Some(minutes)) >>,
                    [ g EXCEPT !.timedOut[user] = minutes ])
  /\ UNCHANGED << workflowVars, cooldownVars, extractVars >>

\* /untimeout: member.timeout(null)
Untimeout(perms, user, deferOk, fetchOk, ok) ==
  LET h == Invoked("untimeout", perms, Some(user), None)
      g == moderation.guild
  IN
  /\ moderation' =
       IF ~IsAdministrator(perms)
         THEN Handled(h, AdminRequired, << >>, g)
       ELSE IF ~deferOk
         THEN Handled(h, SomethingWentWrong, << >>, g)
       ELSE IF ~(fetchOk /\ user \in g.members)
         THEN Handled(h, "User not found in this guild.",
                      << Call("members.fetch", None) >>, g)
       ELSE IF ~ok
         THEN Handled(h, "Failed to remove timeout.",
                      << Call("members.fetch", None),
                         Call("member.timeout", None) >>, g)
       ELSE Handled(h, "Timeout removed for ${user.tag}.",
                    << Call("members.fetch", None),
                       Call("member.timeout", None) >>,
                    [ g EXCEPT !.timedOut[user] = 0 ])
  /\ UNCHANGED << workflowVars, cooldownVars, extractVars >>

\* /ban: guild.bans.create(user.id, { days: deleteDays, reason }); the
\* banned account leaves the guild
Ban(perms, user, option, deferOk, ok) ==
  LET h == Invoked("ban", perms, Some(user), option)
      g == moderation.guild
      deleteDays == DeleteDays(option)
  IN
  /\ moderation' =
       IF ~IsAdministrator(perms)
         THEN Handled(h, AdminRequired, << >>, g)
       ELSE IF DeleteDaysOutOfRange(deleteDays)
         THEN Handled(h, "delete_days must be between 0 and 7.", << >>, g)
       ELSE IF ~deferOk
         THEN Handled(h, SomethingWentWrong, << >>, g)
       ELSE IF ~ok
         THEN Handled(h, "Failed to ban user.",
                      << Call("bans.create", Some(deleteDays)) >>, g)
       ELSE Handled(h, "${user.tag} has been banned.",
                    << Call("bans.create", Some(deleteDays)) >>,
                    [ g EXCEPT !.banned = @ \cup {user},
                               !.members = @ \ {user} ])
  /\ UNCHANGED << workflowVars, cooldownVars, extractVars >>

\* /unban: guild.bans.remove(userId, reason), which fails for an account
\* that is not banned
Unban(perms, userId, deferOk, ok) ==
  LET h == Invoked("unban", perms, Some(userId), None)
      g == moderation.guild
  IN
  /\ moderation' =
       IF ~IsAdministrator(perms)
         THEN Handled(h, AdminRequired, << >>, g)
       ELSE IF ~deferOk
         THEN Handled(h, SomethingWentWrong, << >>, g)
       ELSE IF ~(ok /\ userId \in g.banned)
         THEN Handled(h, "Failed to unban user.",
                      << Call("bans.remove", None) >>, g)
       ELSE Handled(h, "User ID ${userId} has been unbanned.",
                    << Call("bans.remove", None) >>,
                    [ g EXCEPT !.banned = @ \ {userId} ])
  /\ UNCHANGED << workflowVars, cooldownVars, extractVars >>

\* the integers an invoker passes: both limits of each range and their
\* neighbours (the options are registered without a minimum or maximum)
PurgeCounts == { -1, 0, 1, 2, MaxPurgeCount, MaxPurgeCount + 1 }

TimeoutMinutes == { -1, 0, 1, MaxTimeoutMinutes, MaxTimeoutMinutes + 1 }

DeleteDaysOptions ==
  { None } \cup { Some(n) : n \in { -1, 0, 1, MaxDeleteDays, MaxDeleteDays + 1 } }

\* the account the commands are aimed at
Targets == { Users[1] }

\* the moderation commands alone, on a channel holding some messages
ModerationInit ==
  /\ WorkflowIdle
  /\ CooldownIdle
  /\ ExtractIdle
  /\ \E n \in 0 .. MaxMessages :
       moderation = [ last |-> NoCommand, guild |-> Guild(n) ]

ModerationNext ==
  \/ \E perms \in PermissionSets, count \in PurgeCounts,
        channelOk, deferOk, fetchOk, bulkOk \in BOOLEAN,
        deleted \in 0 .. MaxMessages :
       Purge(perms, count, channelOk, deferOk, fetchOk, bulkOk, deleted)
  \/ \E perms \in PermissionSets, user \in Targets,
        minutes \in TimeoutMinutes, deferOk, fetchOk, ok \in BOOLEAN :
       Timeout(perms, user, minutes, deferOk, fetchOk, ok)
  \/ \E perms \in PermissionSets, user \in Targets,
        deferOk, fetchOk, ok \in BOOLEAN :
       Untimeout(perms, user, deferOk, fetchOk, ok)
  \/ \E perms \in PermissionSets, user \in Targets,
        option \in DeleteDaysOptions, deferOk, ok \in BOOLEAN :
       Ban(perms, user, option, deferOk, ok)
  \/ \E perms \in PermissionSets, userId \in Targets,
        deferOk, ok \in BOOLEAN :
       Unban(perms, userId, deferOk, ok)

ModerationSpec == ModerationInit /\ [][ModerationNext]_vars

TypeOK ==
  /\ \A p \in Attempts :
       att[p].pc \in {"idle", "dedup", "fetch", "maplookup", "insert",
                      "grant", "done"}
  /\ Len(verifications) <= MaxAttempts

(* ------------------------------------------------------------------ *)
(* Vocabulary of the properties                                        *)
(* ------------------------------------------------------------------ *)
Done(p) == att[p].pc = "done"

HasRecord(invoiceId) ==
  \E i \in 1..Len(verifications) : verifications[i].invoice_id = invoiceId

\* the attempt issued the INSERT
TriedInsert(p) == "db.run" \in Range(att[p].calls)

\* outcomes of the grant stage other than success
GrantFailures ==
  { "MemberNotFound", "InsufficientPermission", "RoleNotFound",
    "RoleRankTooLow", "GrantFailed" }

\* outcomes of a step that failed before role resolution, or of a failed save
StepFailures ==
  { "InvalidInput", "InteractionError", "DedupError", "Unauthorized",
    "NotFound", "UpstreamUnavailable", "NotEligible", "SaveError" }

\* p and q are the only two attempts for one non-empty invoice id, both ended
TwoCallsSameId(p, q) ==
  /\ p # q /\ Done(p) /\ Done(q)
  /\ att[p].invoiceId # <<>>
  /\ att[p].invoiceId = att[q].invoiceId
  /\ \A r \in Attempts \ {p, q} : att[r].invoiceId # att[p].invoiceId

\* exactly one of the two reached persistence, the other lost the dedup
ExactlyOneConsumes(p, q) ==
  \/ att[p].inserted /\ ~att[q].inserted
       /\ att[q].reply \in {"AlreadyUsed", "ConcurrentlyUsed"}
  \/ att[q].inserted /\ ~att[p].inserted
       /\ att[p].reply \in {"AlreadyUsed", "ConcurrentlyUsed"}

(* ------------------------------------------------------------------ *)
(* C1                                                                  *)
(* ------------------------------------------------------------------ *)
\* C1: in every reachable state the verifications table holds at most one
\* row per invoice id, whatever the interleaving of the attempts.
C1_OneRecordPerInvoice ==
  \A i, j \in 1..Len(verifications) :
    verifications[i].invoice_id = verifications[j].invoice_id => i = j

\* two attempts for one id both issued the INSERT; one row was written
C1_Witness ==
  \E p, q \in Attempts :
    /\ p # q /\ Done(p) /\ Done(q)
    /\ att[p].invoiceId = att[q].invoiceId
    /\ TriedInsert(p) /\ TriedInsert(q)
    /\ att[p].inserted /\ att[q].reply = "ConcurrentlyUsed"

C4_RowEndsAttempt ==
  \A p \in Attempts :
    att[p].row =>
      /\ Done(p)
      /\ att[p].reply = "AlreadyUsed"
      /\ att[p].calls = << "db.get" >>
      /\ ~att[p].inserted
      /\ \A m \in memberRoles :
           (m.member = att[p].user /\ m.reason = att[p].invoiceId) =>
             \E q \in Attempts \ {p} :
               att[q].reply = "Granted" /\ att[q].user = m.member
               /\ att[q].invoiceId = m.reason

\* the lookup of a later attempt found the row of an earlier one
C4_Witness ==
  \E p \in Attempts :
    att[p].row /\ att[p].reply = "AlreadyUsed" /\ HasRecord(att[p].invoiceId)

(* ------------------------------------------------------------------ *)
(* C5                                                                  *)
(* ------------------------------------------------------------------ *)
\* C5 (state part): a submitted attempt whose invoice id is empty after
\* trimming has ended in InvalidInput without issuing any call.
C5_EmptyIdState ==
  \A p \in Attempts :
    (att[p].pc # "idle" /\ Trim(att[p].invoiceId) = <<>>) =>
      /\ Done(p)
      /\ att[p].reply = "InvalidInput"
      /\ att[p].calls = <<>>
      /\ ~att[p].inserted

\* C5 (step part): the step that ends an attempt in InvalidInput leaves the
\* verifications table unchanged.
C5_EmptyIdStep ==
  \A p \in Attempts :
    (att[p].pc = "idle" /\ att'[p].reply = "InvalidInput")
    => verifications' = verifications

\* C5: an attempt whose invoice id is empty after trimming fails immediately
\* with InvalidInput: no dedup lookup, no fetch, no INSERT, and the record
\* set is unchanged.
C5_EmptyIdRejected == []C5_EmptyIdState /\ [][C5_EmptyIdStep]_vars

\* a blank id was rejected while a record exists
C5_Witness ==
  \E p \in Attempts :
    /\ att[p].reply = "InvalidInput"
    /\ Len(verifications) > 0

(* ------------------------------------------------------------------ *)
(* C6                                                                  *)
(* ------------------------------------------------------------------ *)
\* every row of the table before the step is the same row after it
C6_RowsKept ==
  /\ Len(verifications') >= Len(verifications)
  /\ \A i \in 1..Len(verifications) : verifications'[i] = verifications[i]

\* C6: records are write-once: no step of any attempt changes or removes an
\* existing row of verifications; the table only grows.
C6_WriteOnce == [][C6_RowsKept]_vars

\* a conflicting INSERT by another account was attempted against a row
C6_Witness ==
  \E p \in Attempts :
    /\ att[p].reply = "ConcurrentlyUsed"
    /\ \E i \in 1..Len(verifications) :
         /\ verifications[i].invoice_id = att[p].invoiceId
         /\ verifications[i].discord_id # att[p].user

(* ------------------------------------------------------------------ *)
(* C7                                                                  *)
(* ------------------------------------------------------------------ *)
\* C7 (state part): an attempt that ended in a failure of the grant stage
\* replied with the "verified but" qualifier, and its row is in the table.
C7_GrantFailureState ==
  \A p \in Attempts :
    (Done(p) /\ att[p].reply \in GrantFailures) =>
      /\ Qualifier(att[p].reply) = "verified_but"
      /\ att[p].inserted
      /\ \E i \in 1..Len(verifications) :
           /\ verifications[i].invoice_id = att[p].invoiceId
           /\ verifications[i].discord_id = att[p].user

\* C7 (step part): a dedup lookup that completes without a database error
\* while a row for its invoice id exists ends the attempt in AlreadyUsed.
C7_LaterLookupStep ==
  \A p \in Attempts :
    ( /\ att[p].pc = "dedup" /\ att'[p].pc # "dedup"
      /\ HasRecord(att[p].invoiceId)
      /\ att'[p].reply # "DedupError" )
    => att'[p].reply = "AlreadyUsed"

\* C7: after a successful INSERT every failure of the grant stage is reported
\* as "verified but ..." and leaves the record in place; a later verify of
\* the same id (whose lookup itself succeeds) ends in AlreadyUsed.
C7_GrantFailureKeepsRecord ==
  []C7_GrantFailureState /\ [][C7_LaterLookupStep]_vars

\* the rank check failed after the INSERT, and a later attempt for the same
\* id was answered AlreadyUsed
C7_Witness ==
  \E p, q \in Attempts :
    /\ att[p].reply = "RoleRankTooLow"
    /\ att[q].reply = "AlreadyUsed"
    /\ att[q].invoiceId = att[p].invoiceId

(* ------------------------------------------------------------------ *)
(* C8                                                                  *)
(* ------------------------------------------------------------------ *)
\* C8: an attempt whose uppercased status is absent or not one of PAID,
\* COMPLETED, FULFILLED, SUCCESS ends in NotEligible without INSERT or grant:
\* no attempt gets past validation with such a status, and every row of
\* verifications has an accepted status.
C8_OnlyAcceptedStatus ==
  /\ \A p \in Attempts :
       (Done(p) /\ att[p].reply = "NotEligible") =>
         /\ \/ att[p].currentStatus = None
            \/ att[p].currentStatus[1] \notin validStatuses
         /\ ~TriedInsert(p) /\ ~att[p].inserted
  /\ \A p \in Attempts :
       att[p].pc \in {"maplookup", "insert", "grant"} =>
         /\ att[p].currentStatus # None
         /\ att[p].currentStatus[1] \in validStatuses
  /\ \A i \in 1..Len(verifications) :
       verifications[i].status \in validStatuses
  /\ \A m \in memberRoles :
       \E i \in 1..Len(verifications) :
         /\ verifications[i].invoice_id = m.reason
         /\ verifications[i].status \in validStatuses

\* an attempt was rejected with the status PENDING while another one's
\* accepted status is in the table
C8_Witness ==
  /\ \E p \in Attempts :
       /\ att[p].reply = "NotEligible"
       /\ att[p].currentStatus = Some(toUpperCase(sPending))
  /\ Len(verifications) > 0

(* ------------------------------------------------------------------ *)
(* C9                                                                  *)
(* ------------------------------------------------------------------ *)
\* C9: when the bot's highest role position is equal to or lower than the
\* target role's position the attempt ends in RoleRankTooLow and
\* member.roles.add is never called, whatever the bot's permissions; a role
\* is added only when the position is strictly higher.
C9_RankGuardsGrant ==
  /\ \A p \in Attempts :
       att[p].rank \in {"equal", "lower"} =>
         /\ att[p].reply = "RoleRankTooLow"
         /\ "roles.add" \notin Range(att[p].calls)
  /\ \A p \in Attempts :
       ("roles.add" \in Range(att[p].calls) \/ att[p].reply = "Granted")
       => att[p].rank = "higher"
  /\ \A m \in memberRoles :
       \E p \in Attempts :
         /\ att[p].reply = "Granted" /\ att[p].rank = "higher"
         /\ att[p].user = m.member /\ att[p].invoiceId = m.reason

\* equal positions ended one attempt in RoleRankTooLow, a strictly higher one
\* let another be granted
C9_Witness ==
  /\ \E p \in Attempts : att[p].reply = "RoleRankTooLow" /\ att[p].rank = "equal"
  /\ \E p \in Attempts : att[p].reply = "Granted"

(* ------------------------------------------------------------------ *)
(* C10                                                                 *)
(* ------------------------------------------------------------------ *)
\* the outcome the claim assigns to a rejection of axios.get
C10_Expected(apiErr) ==
  CASE apiErr.response = << 401 >> -> "Unauthorized"
    [] apiErr.response = << 404 >> -> "NotFound"
    [] OTHER -> "UpstreamUnavailable"

\* C10: a failed fetch ends the attempt without INSERT or grant: HTTP 401 as
\* Unauthorized, HTTP 404 as NotFound, any other non-2xx response, network
\* error or timeout as UpstreamUnavailable; a 2xx response without an
\* invoice in its body ends it as NotFound.
C10_FetchFailureMapping ==
  \A p \in Attempts :
    /\ (att[p].apiErr # None /\ att[p].apiErr[1] \in ApiErrors) =>
         /\ Done(p)
         /\ att[p].reply = C10_Expected(att[p].apiErr[1])
         /\ att[p].calls = << "db.get", "axios.get" >>
         /\ ~att[p].inserted
    /\ att[p].noInvoice =>
         /\ Done(p)
         /\ att[p].reply = "NotFound"
         /\ att[p].calls = << "db.get", "axios.get" >>
         /\ ~att[p].inserted

\* one attempt timed out, another got HTTP 404; both ended without INSERT
C10_Witness ==
  /\ \E p \in Attempts :
       /\ att[p].apiErr = Some([response |-> <<>>, code |-> "ECONNABORTED"])
       /\ att[p].reply = "UpstreamUnavailable"
  /\ \E p \in Attempts :
       /\ att[p].apiErr = Some([response |-> << 404 >>, code |-> "ERR_BAD_REQUEST"])
       /\ att[p].reply = "NotFound"

(* ------------------------------------------------------------------ *)
(* C11                                                                 *)
(* ------------------------------------------------------------------ *)
\* C11 (state part): an attempt ended in AlreadyUsed exactly when its dedup
\* lookup returned a row; it ended in ConcurrentlyUsed exactly when the
\* lookup returned none and its INSERT failed with SQLITE_CONSTRAINT, and
\* then it wrote no row and called neither members.fetch nor roles.add.
C11_DedupState ==
  \A p \in Attempts :
    /\ (att[p].reply = "AlreadyUsed") <=> att[p].row
    /\ (att[p].reply = "ConcurrentlyUsed")
         <=> (~att[p].row /\ att[p].dbErr = "SQLITE_CONSTRAINT")
    /\ att[p].reply = "ConcurrentlyUsed" =>
         /\ TriedInsert(p)
         /\ ~att[p].inserted
         /\ "members.fetch" \notin Range(att[p].calls)
         /\ "roles.add" \notin Range(att[p].calls)

\* C11 (step part): the lookup step answers AlreadyUsed only when the table
\* holds a row for the id; the INSERT step answers ConcurrentlyUsed only when
\* the table holds one, and it then changes neither the table nor the roles
\* of any member; an INSERT step against an existing row never succeeds.
C11_DedupStep ==
  \A p \in Attempts :
    /\ (att[p].pc = "dedup" /\ att'[p].reply = "AlreadyUsed")
         => HasRecord(att[p].invoiceId)
    /\ (att[p].pc = "insert" /\ att'[p].reply = "ConcurrentlyUsed") =>
         /\ HasRecord(att[p].invoiceId)
         /\ verifications' = verifications
         /\ memberRoles' = memberRoles
    /\ (att[p].pc = "insert" /\ att'[p].pc # "insert"
        /\ HasRecord(att[p].invoiceId))
         => att'[p].reply \in {"ConcurrentlyUsed", "SaveError"}

\* C11: the two dedup outcomes are told apart by the check that caught the
\* duplicate: AlreadyUsed exactly when the dedup lookup found a row,
\* ConcurrentlyUsed exactly when the lookup found none but the INSERT
\* violated the uniqueness constraint, and then no role is granted.
C11_DedupOutcomes == []C11_DedupState /\ [][C11_DedupStep]_vars

\* an attempt passed the lookup, lost at the INSERT against the row of an
\* attempt by another account, and replied without a grant stage
C11_Witness ==
  \E p, q \in Attempts :
    /\ p # q
    /\ att[p].reply = "ConcurrentlyUsed"
    /\ ~att[p].row /\ att[p].dbErr = "SQLITE_CONSTRAINT"
    /\ att[q].inserted /\ att[q].invoiceId = att[p].invoiceId
    /\ att[q].user # att[p].user

(* ------------------------------------------------------------------ *)
(* C12                                                                 *)
(* ------------------------------------------------------------------ *)
\* C12 (state part): an attempt whose INSERT failed with an error other than
\* the constraint violation ended in SaveError, wrote no row and called
\* neither members.fetch nor roles.add; unless another attempt inserted the
\* id, the table holds no row for it.
C12_SaveErrorState ==
  \A p \in Attempts :
    (att[p].dbErr \notin {"", "SQLITE_CONSTRAINT"}) =>
      /\ Done(p)
      /\ att[p].reply = "SaveError"
      /\ Qualifier(att[p].reply) = "error"
      /\ ~att[p].inserted
      /\ "members.fetch" \notin Range(att[p].calls)
      /\ "roles.add" \notin Range(att[p].calls)
      /\ (\A q \in Attempts \ {p} :
            att[q].invoiceId = att[p].invoiceId => ~att[q].inserted)
         => ~HasRecord(att[p].invoiceId)

\* C12 (step part): the step that ends an attempt in SaveError changes
\* neither the table nor the roles of any member.
C12_SaveErrorStep ==
  \A p \in Attempts :
    (att[p].pc = "insert" /\ att'[p].reply = "SaveError") =>
      /\ verifications' = verifications
      /\ memberRoles' = memberRoles

\* C12: an INSERT failing with a persistence error other than the uniqueness
\* violation ends the attempt with a generic failure, inserts no record and
\* grants no role, so the invoice id stays eligible for a later verify.
C12_SaveErrorKeepsEligible ==
  []C12_SaveErrorState /\ [][C12_SaveErrorStep]_vars

\* after a SaveError a later attempt for the same id passed the dedup lookup
\* and was granted the role
C12_Witness ==
  \E p, q \in Attempts :
    /\ p < q
    /\ att[p].reply = "SaveError"
    /\ att[q].invoiceId = att[p].invoiceId
    /\ ~att[q].row
    /\ att[q].reply = "Granted"

(* ------------------------------------------------------------------ *)
(* C13                                                                 *)
(* ------------------------------------------------------------------ *)
\* the role id the claim assigns: the entry's role when a product id was
\* found, the lookup did not fail and the table has an entry for it; else
\* the default role; "" when there is none
C13_Expected(productId, table, defaultRole, mapErr) ==
  IF productId # None /\ ~mapErr
     /\ \E r \in table : r.product_id = productId[1]
  THEN (CHOOSE r \in table : r.product_id = productId[1]).role_id
  ELSE defaultRole

\* the same with an entry counted only when its role id is not empty
C13_ExpectedNonEmpty(productId, table, defaultRole, mapErr) ==
  IF productId # None /\ ~mapErr
     /\ \E r \in table : r.product_id = productId[1] /\ r.role_id # ""
  THEN (CHOOSE r \in table : r.product_id = productId[1]).role_id
  ELSE defaultRole

\* the attempt took the layer e: it issues the INSERT with the role id e, or
\* ends in NoRoleConfigured without INSERT when e is ""
C13_Resolved(p, e) ==
  IF e = ""
  THEN /\ att'[p].pc = "done" /\ att'[p].reply = "NoRoleConfigured"
       /\ "db.run" \notin Range(att'[p].calls)
  ELSE /\ att'[p].pc = "insert" /\ att'[p].roleIdStr = e
       /\ att'[p].calls = Append(att[p].calls, "db.run")

\* the step of the role-mapping callback as the claim states it
C13_OriginalStep ==
  \A p \in Attempts, mapErr \in BOOLEAN :
    MapLookup(p, mapErr) =>
      C13_Resolved(p, C13_Expected(att[p].productId, role_mappings,
                                   VERIFY_ROLE_ID, mapErr))

C13_ResolutionStep ==
  /\ \A p \in Attempts, mapErr \in BOOLEAN :
       MapLookup(p, mapErr) =>
         C13_Resolved(p, C13_ExpectedNonEmpty(att[p].productId, role_mappings,
                                              VERIFY_ROLE_ID, mapErr))
  /\ \A p \in Attempts :
       (att[p].pc = "fetch" /\ att'[p].pc # "fetch"
        /\ att'[p].reply \notin {"NotFound", "NotEligible", "Unauthorized",
                                 "UpstreamUnavailable"}) =>
         IF att'[p].pc = "maplookup"
         THEN att'[p].productId # None
         ELSE C13_Resolved(p, C13_ExpectedNonEmpty(None, role_mappings,
                                                   VERIFY_ROLE_ID, FALSE))

\* C13 amended (state part): every row carries a non-empty role id, the one
\* of the mapping entry of its product id or the default role, and an
\* attempt in NoRoleConfigured means that no default role is configured.
C13_ResolutionState ==
  /\ \A i \in 1..Len(verifications) :
       /\ verifications[i].role_id # ""
       /\ \/ verifications[i].role_id = VERIFY_ROLE_ID
          \/ /\ verifications[i].product_id # None
             /\ \E r \in role_mappings :
                  /\ r.product_id = verifications[i].product_id[1]
                  /\ r.role_id = verifications[i].role_id
  /\ \A p \in Attempts :
       att[p].reply = "NoRoleConfigured" => VERIFY_ROLE_ID = ""

C14_Expected(p) ==
  IF ~att[p].seen.member THEN "MemberNotFound"
  ELSE IF ~att[p].seen.capable THEN "InsufficientPermission"
  ELSE IF ~att[p].seen.role THEN "RoleNotFound"
  ELSE IF att[p].rank # "higher" THEN "RoleRankTooLow"
  ELSE "pass"

\* the role addition of attempt p
C14_Addition(p) ==
  [ member |-> att[p].user, role |-> att[p].roleIdStr,
    reason |-> att[p].invoiceId ]

\* C14 (attempts part): an attempt whose grant stage ran in a guild ended in
\* the outcome of the first failing check, without calling roles.add; it
\* called roles.add, after members.fetch, exactly when all four passed, and
\* is reported Granted only then.
C14_GrantState ==
  \A p \in Attempts :
    /\ "members.fetch" \in Range(att[p].calls) =>
         /\ Done(p)
         /\ IF C14_Expected(p) # "pass"
            THEN /\ att[p].reply = C14_Expected(p)
                 /\ att[p].calls[Len(att[p].calls)] = "members.fetch"
                 /\ "roles.add" \notin Range(att[p].calls)
            ELSE /\ att[p].reply \in {"Granted", "GrantFailed"}
                 /\ SubSeq(att[p].calls, Len(att[p].calls) - 1,
                           Len(att[p].calls))
                      = << "members.fetch", "roles.add" >>
    /\ att[p].reply = "Granted" =>
         /\ "members.fetch" \in Range(att[p].calls)
         /\ C14_Expected(p) = "pass"
         /\ C14_Addition(p) \in memberRoles
    /\ "roles.add" \in Range(att[p].calls)
         => "members.fetch" \in Range(att[p].calls)

\* C14 (roles part): every role added to a member is the role of an attempt
\* that ended in Granted.
C14_GrantedRoles ==
  \A m \in memberRoles :
    \E p \in Attempts : att[p].reply = "Granted" /\ C14_Addition(p) = m

\* C14: the grant stage checks member found, role-management capability,
\* role exists, rank strictly above, in this order; the first failing check
\* decides between MemberNotFound, InsufficientPermission, RoleNotFound and
\* RoleRankTooLow, and the role is added and Granted reported only if all
\* four pass.
C14_GrantCheckOrder == C14_GrantState /\ C14_GrantedRoles

\* one attempt stopped at the permission check, with the role and rank
\* checks not reached, and another at the role check
C14_Witness ==
  \E p, q \in Attempts :
    /\ att[p].reply = "InsufficientPermission" /\ att[p].inserted
    /\ att[p].seen.member /\ ~att[p].seen.capable
    /\ att[q].reply = "RoleNotFound" /\ att[q].inserted
    /\ att[q].seen.capable /\ ~att[q].seen.role

(* ------------------------------------------------------------------ *)
(* C15                                                                 *)
(* ------------------------------------------------------------------ *)
\* number of times the call c was issued by attempt p
C15_Count(p, c) ==
  Cardinality({ i \in 1..Len(att[p].calls) : att[p].calls[i] = c })

\* the terminal outcomes of a verify attempt
C15_Outcomes ==
  { "InvalidInput", "InteractionError", "DedupError", "AlreadyUsed",
    "Unauthorized", "NotFound", "UpstreamUnavailable", "NotEligible",
    "NoRoleConfigured", "ConcurrentlyUsed", "SaveError", "MemberNotFound",
    "InsufficientPermission", "RoleNotFound", "RoleRankTooLow", "GrantFailed",
    "Granted" }

\* C15 (state part): an attempt has replied exactly when it is done, with
\* one of the terminal outcomes, and it has issued at most one dedup lookup,
\* one fetch and one INSERT.
C15_OnceState ==
  \A p \in Attempts :
    /\ IF Done(p) THEN att[p].reply \in C15_Outcomes ELSE att[p].reply = ""
    /\ C15_Count(p, "db.get") <= 1
    /\ C15_Count(p, "axios.get") <= 1
    /\ C15_Count(p, "db.run") <= 1

\* C15 (step part): an attempt that has replied takes no further step, and
\* no step takes an attempt back to an earlier call.
C15_TerminalStep ==
  \A p \in Attempts :
    /\ Done(p) => att'[p] = att[p]
    /\ Len(att'[p].calls) >= Len(att[p].calls)
    /\ att'[p].pc = att[p].pc => att'[p] = att[p]

\* C15: every verify attempt ends in exactly one terminal outcome and never
\* retries: at most one dedup lookup, one fetch and one INSERT, no step after
\* the outcome, and, every awaited call returning or failing, each submitted
\* attempt does reach its outcome.
C15_TerminatesOnce ==
  /\ []C15_OnceState
  /\ [][C15_TerminalStep]_vars
  /\ \A p \in Attempts : (att[p].pc # "idle") ~> Done(p)

\* one attempt went through every call of the workflow once and was granted
\* the role, another ended at its first call
C15_Witness ==
  \E p, q \in Attempts :
    /\ att[p].reply = "Granted"
    /\ att[p].calls = << "db.get", "axios.get", "db.get.role_mappings",
                         "db.run", "members.fetch", "roles.add" >>
    /\ att[q].reply = "DedupError"
    /\ att[q].calls = << "db.get" >>

(* ------------------------------------------------------------------ *)
(* C16                                                                 *)
(* ------------------------------------------------------------------ *)
\* C16 (state part): an attempt has ended exactly when it has replied; an
\* attempt that met a failure of the fetch, of the INSERT, of the member or
\* role lookup or of roles.add has ended with the message of that failure.
C16_FailureState ==
  \A p \in Attempts :
    /\ Done(p) <=> att[p].reply # ""
    /\ att[p].apiErr # None =>
         att[p].reply \in {"Unauthorized", "NotFound", "UpstreamUnavailable"}
    /\ att[p].dbErr # "" => att[p].reply \in {"ConcurrentlyUsed", "SaveError"}
    /\ ("members.fetch" \in Range(att[p].calls) /\ ~att[p].seen.member)
         => att[p].reply = "MemberNotFound"
    /\ (att[p].seen.capable /\ ~att[p].seen.role)
         => att[p].reply = "RoleNotFound"
    /\ "roles.add" \in Range(att[p].calls)
         => att[p].reply \in {"GrantFailed", "Granted"}

\* C16 (step part): the step in which a call of an attempt fails ends that
\* attempt with one message, or, for the role-mapping lookup with a default
\* role configured, continues it with the default role; a reply once sent is
\* never replaced.
C16_FailureStep ==
  \A p \in Attempts :
    att'[p] # att[p] =>
      /\ att[p].reply = ""
      /\ DedupLookup(p, TRUE) => att'[p].reply = "DedupError"
      /\ (\E apiErr \in ApiErrors : FetchFail(p, apiErr)) =>
           att'[p].reply \in {"Unauthorized", "NotFound", "UpstreamUnavailable"}
      /\ MapLookup(p, TRUE) =>
           IF VERIFY_ROLE_ID = ""
           THEN att'[p].reply = "NoRoleConfigured"
           ELSE att'[p].pc = "insert" /\ att'[p].roleIdStr = VERIFY_ROLE_ID
      /\ Insert(p, TRUE) => att'[p].reply = "SaveError"
      /\ att[p].pc = "grant" =>
           att'[p].reply \in GrantFailures \cup {"Granted"}

\* C16: every failure of a workflow step (dedup lookup, fetch, INSERT,
\* role-mapping lookup, member or role lookup, roles.add) is caught and
\* turned into exactly one message of the attempt; none leaves an attempt
\* ended without a reply.
C16_FailuresReplied == []C16_FailureState /\ [][C16_FailureStep]_vars

\* one attempt replied to a failed INSERT, another to a failed roles.add,
\* each with its own message
C16_Witness ==
  \E p, q \in Attempts :
    /\ att[p].reply = "SaveError" /\ att[p].dbErr = "SQLITE_IOERR"
    /\ att[q].reply = "GrantFailed"
    /\ "roles.add" \in Range(att[q].calls)

(* ------------------------------------------------------------------ *)
(* C17                                                                 *)
(* ------------------------------------------------------------------ *)
\* what an attempt for the invoice id reads of the verifications table: the
\* rows of its id, and whether the INSERT of its id is rejected
C17_Reads(table, invoiceId) ==
  << SelectVerification(table, invoiceId),
     UniqueViolation(table, invoiceId) >>

\* C17 (failure part): the step that ends an attempt in a failure changes no
\* table, no role of any member and no configuration.
C17_FailureFrame ==
  \A p \in Attempts :
    (att[p].reply = "" /\ att'[p].reply \in C15_Outcomes \ {"Granted"}) =>
      /\ verifications' = verifications
      /\ memberRoles' = memberRoles
      /\ role_mappings' = role_mappings
      /\ VERIFY_ROLE_ID' = VERIFY_ROLE_ID

\* C17 (isolation part): a step of one attempt leaves the locals of every
\* other attempt as they are, and leaves what an attempt for a different
\* invoice id reads of the tables as it is.
C17_Isolation ==
  \A p, q \in Attempts :
    (p # q /\ att'[p] # att[p]) =>
      /\ att'[q] = att[q]
      /\ role_mappings' = role_mappings
      /\ VERIFY_ROLE_ID' = VERIFY_ROLE_ID
      /\ (att[q].pc # "idle" /\ att[q].invoiceId # att'[p].invoiceId) =>
           C17_Reads(verifications', att[q].invoiceId)
             = C17_Reads(verifications, att[q].invoiceId)

\* C17: a failure at a step of one verify invocation aborts only that
\* invocation: it changes no persisted record, and no step of it alters the
\* locals, or what is read, of an invocation in flight for another id.
C17_FailureIsolated == [][C17_FailureFrame /\ C17_Isolation]_vars

\* an attempt failed at its INSERT while an earlier attempt for another id,
\* whose row is in the table, was still in its grant stage
C17_Witness ==
  \E p, q \in Attempts :
    /\ q < p
    /\ att[p].reply = "SaveError"
    /\ att[q].pc = "grant"
    /\ att[q].invoiceId # att[p].invoiceId
    /\ HasRecord(att[q].invoiceId)

(* ------------------------------------------------------------------ *)
(* C18                                                                 *)
(* ------------------------------------------------------------------ *)
\* C18: whatever the interleaving of prune runs, clock advances and presses,
\* every press of the verify button is accepted or rejected exactly as it
\* would be had no prune ever run: the Map agrees with the never-pruned one
\* on every entry it still has, and an entry it lacks is older than five
\* cooldown windows, which the decision treats like no recent press.
C18_PruneNeverDecides ==
  /\ lastPress.accepted = lastPress.expected
  /\ DOMAIN buttonCooldown \subseteq DOMAIN neverPruned
  /\ \A u \in DOMAIN buttonCooldown : buttonCooldown[u] = neverPruned[u]
  /\ \A u \in DOMAIN neverPruned \ DOMAIN buttonCooldown :
       /\ clock - neverPruned[u] > 5 * BUTTON_COOLDOWN_MS
       /\ ~InCooldown(clock - LastPressOf(buttonCooldown, u))
       /\ ~InCooldown(clock - LastPressOf(neverPruned, u))

\* a press by an account whose entry had been pruned was accepted, while the
\* entry of the other account was still kept
C18_Witness ==
  /\ lastPress.pruned
  /\ lastPress.accepted
  /\ \E u \in DOMAIN buttonCooldown :
       u # lastPress.user /\ buttonCooldown[u] < clock


(* ------------------------------------------------------------------ *)
(* C19                                                                 *)
(* ------------------------------------------------------------------ *)
\* the fields extractInvoiceStatus looks at
C19_ProbedFields ==
  { "status", "history", "state", "payment_status", "status_text", "items" }

C19_LacksEveryProbedField(d) ==
  ~(d.k = "obj" /\ \E f \in C19_ProbedFields : f \in DOMAIN d.m)

\* C19: a call of extract never raises, whatever the document: absent or
\* null, no mapping, fields missing or of the wrong type, null or
\* non-mapping elements in history or items; it returns a string or absent,
\* and absent for a document that has none of the probed fields.
C19_NeverRaises ==
  extracted # << >> =>
    LET r == extracted[1]
    IN /\ ~r.raised
       /\ Len(r.value) <= 1
       /\ r.value # None => Len(r.value[1]) > 0
       /\ doc.k \in {"null", "undef"} => r.value = None
       /\ C19_LacksEveryProbedField(doc) => r.value = None

\* extract has returned a status for a document whose status has the wrong
\* type and whose history and items hold null elements
C19_Witness ==
  /\ extracted # << >>
  /\ extracted[1].value # None
  /\ doc.k = "obj"
  /\ Get(doc, "status").k = "num"
  /\ IsArray(Get(doc, "history"))
  /\ Null \in Range(Get(doc, "history").a)
  /\ IsArray(Get(doc, "items"))
  /\ Null \in Range(Get(doc, "items").a)


(* ------------------------------------------------------------------ *)
(* C20                                                                 *)
(* ------------------------------------------------------------------ *)
\* v is a string with something other than whitespace in it
C20_IsText(v) == v.k = "str" /\ \E i \in 1..Len(v.s) : v.s[i] \notin Whitespace

\* the status of the entry, when the entry is a mapping with a text status
C20_StatusOf(h) ==
  IF h.k = "obj" /\ "status" \in DOMAIN h.m /\ C20_IsText(h.m.status)
  THEN Some(Trim(h.m.status.s))
  ELSE None

\* the positions of an array whose entry has a text status
C20_Usable(v) ==
  IF v.k = "arr"
  THEN { i \in 1..Len(v.a) : C20_StatusOf(v.a[i]) # None }
  ELSE {}

C20_Last(v) ==
  IF C20_Usable(v) = {} THEN None
  ELSE C20_StatusOf(v.a[CHOOSE i \in C20_Usable(v) :
                          \A j \in C20_Usable(v) : j <= i])

C20_First(v) ==
  IF C20_Usable(v) = {} THEN None
  ELSE C20_StatusOf(v.a[CHOOSE i \in C20_Usable(v) :
                          \A j \in C20_Usable(v) : i <= j])

\* a fallback key matches with a text value or a mapping with a text status
C20_Fallback(d, key) ==
  IF C20_IsText(Get(d, key)) THEN Some(Trim(Get(d, key).s))
  ELSE C20_StatusOf(Get(d, key))

C20_FallbackKeys(d) ==
  IF C20_Fallback(d, "state") # None THEN C20_Fallback(d, "state")
  ELSE IF C20_Fallback(d, "payment_status") # None
       THEN C20_Fallback(d, "payment_status")
  ELSE C20_Fallback(d, "status_text")

\* the rules in their order of priority, each with what it yields for d
C20_Rules(d) ==
  LET st == Get(d, "status")
      mapping == st.k = "obj"
  IN << IF C20_IsText(st) THEN Some(Trim(st.s)) ELSE None,
        IF mapping /\ C20_IsText(Get(st, "status"))
        THEN Some(Trim(Get(st, "status").s)) ELSE None,
        IF mapping THEN C20_StatusOf(Get(st, "status")) ELSE None,
        IF mapping THEN C20_Last(Get(st, "history")) ELSE None,
        C20_Last(Get(d, "history")),
        C20_FallbackKeys(d),
        C20_First(Get(d, "items")) >>

\* the rules that match, given what each rule yields
C20_Matching(rules) == { i \in 1..Len(rules) : rules[i] # None }

\* C20: extract is an ordered probe and the first matching rule wins:
\* document.status as a string, then for a mapping document.status its
\* string status, its status.status, its history, then document.history,
\* the fallback keys, document.items; the value of a rule is returned only
\* when no rule before it matches, and absent when none matches.
C20_FirstMatchWins ==
  (extracted # << >> /\ doc.k = "obj") =>
    LET r == extracted[1]
        rules == C20_Rules(doc)
        matching == C20_Matching(rules)
    IN /\ ~r.raised
       /\ matching = {} => r.value = None
       /\ \A i \in matching :
            (\A j \in matching : i <= j) => r.value = rules[i]

\* extract has returned the status found in document.status.history for a
\* document whose history, fallback keys and items match as well
C20_Witness ==
  /\ extracted # << >>
  /\ doc.k = "obj"
  /\ LET rules == C20_Rules(doc)
     IN /\ C20_Matching(rules) = {4, 5, 6, 7}
        /\ extracted[1].value = rules[4]
        /\ extracted[1].value # rules[5]


(* ------------------------------------------------------------------ *)
(* C21                                                                 *)
(* ------------------------------------------------------------------ *)
\* val is the status of an entry of the array v that has a text status,
\* and no entry after it has one
C21_IsLast(v, val) ==
  \E i \in C20_Usable(v) :
    /\ val = C20_StatusOf(v.a[i])
    /\ \A j \in (i + 1)..Len(v.a) : j \notin C20_Usable(v)

\* the same with no entry before it
C21_IsFirst(v, val) ==
  \E i \in C20_Usable(v) :
    /\ val = C20_StatusOf(v.a[i])
    /\ \A j \in 1..(i - 1) : j \notin C20_Usable(v)

\* no rule before rule n yields a status
C21_NoneBefore(rules, n) == \A i \in 1..(n - 1) : rules[i] = None

\* C21: when the status comes from a history sequence
\* (document.status.history or document.history), it is the status of the
\* last entry that has a non-empty string status; when it comes from
\* document.items, it is that of the first such element.
C21_ScanDirection ==
  (extracted # << >> /\ doc.k = "obj") =>
    LET val == extracted[1].value
        rules == C20_Rules(doc)
        st == Get(doc, "status")
        nested == IF st.k = "obj" THEN Get(st, "history") ELSE Undef
        hist == Get(doc, "history")
        items == Get(doc, "items")
    IN /\ (C21_NoneBefore(rules, 4) /\ C20_Usable(nested) # {})
            => C21_IsLast(nested, val)
       /\ (C21_NoneBefore(rules, 5) /\ C20_Usable(hist) # {})
            => C21_IsLast(hist, val)
       /\ (C21_NoneBefore(rules, 7) /\ C20_Usable(items) # {})
            => C21_IsFirst(items, val)

\* extract has returned the status of the second of two entries of
\* document.history that carry different statuses
C21_Witness ==
  /\ extracted # << >>
  /\ doc.k = "obj"
  /\ C21_NoneBefore(C20_Rules(doc), 5)
  /\ C20_Usable(Get(doc, "history")) = {1, 2}
  /\ C20_StatusOf(Get(doc, "history").a[1])
       # C20_StatusOf(Get(doc, "history").a[2])
  /\ extracted[1].value = C20_StatusOf(Get(doc, "history").a[2])


(* ------------------------------------------------------------------ *)
(* C22                                                                 *)
(* ------------------------------------------------------------------ *)
\* the fallback keys in their order
C22_Keys == << "state", "payment_status", "status_text" >>

\* the positions of the fallback keys whose value is a text, or a mapping
\* with a text status
C22_MatchingKeys(d) ==
  { i \in 1..Len(C22_Keys) : C20_Fallback(d, C22_Keys[i]) # None }

\* C22: when no status or history rule matches, extract returns what the
\* first matching fallback key holds, in the order state, payment_status,
\* status_text: the value itself when it is a non-empty string, its status
\* when it is a mapping with a non-empty string status.
C22_FallbackOrder ==
  (extracted # << >> /\ doc.k = "obj"
     /\ C21_NoneBefore(C20_Rules(doc), 6)) =>
    \A i \in C22_MatchingKeys(doc) :
      (\A j \in C22_MatchingKeys(doc) : i <= j) =>
        LET v == Get(doc, C22_Keys[i])
        IN extracted[1].value =
             IF v.k = "str" THEN Some(Trim(v.s))
             ELSE Some(Trim(Get(v, "status").s))

\* extract has returned the status of the mapping under state for a
\* document without status whose payment_status is a string as well
C22_Witness ==
  /\ extracted # << >>
  /\ doc.k = "obj"
  /\ "status" \notin DOMAIN doc.m
  /\ C21_NoneBefore(C20_Rules(doc), 6)
  /\ C22_MatchingKeys(doc) = {1, 2}
  /\ Get(doc, "state").k = "obj"
  /\ extracted[1].value = Some(Get(Get(doc, "state"), "status").s)
  /\ extracted[1].value # Some(Get(doc, "payment_status").s)


(* ------------------------------------------------------------------ *)
(* C23                                                                 *)
(* ------------------------------------------------------------------ *)
\* the accepted statuses
C23_Accepted ==
  { << "P", "A", "I", "D" >>,
    << "C", "O", "M", "P", "L", "E", "T", "E", "D" >>,
    << "F", "U", "L", "F", "I", "L", "L", "E", "D" >>,
    << "S", "U", "C", "C", "E", "S", "S" >> }

\* c and d are the same letter, in whatever case
C23_SameLetter(c, d) ==
  \/ c = d
  \/ \E i \in 1..Len(LowerLetters) :
       {c, d} = {LowerLetters[i], UpperLetters[i]}

\* s and w are the same word, in whatever case
C23_SameWord(s, w) ==
  /\ Len(s) = Len(w)
  /\ \A i \in 1..Len(s) : C23_SameLetter(s[i], w[i])

\* the attempt has gone through status validation
C23_Validated(p) ==
  /\ att[p].pc \notin {"idle", "dedup", "fetch"}
  /\ "axios.get" \in Range(att[p].calls)

\* C23: eligibility is case-insensitive.  An attempt whose document has the
\* status s passes status validation if and only if s is one of PAID,
\* COMPLETED, FULFILLED, SUCCESS in whatever case; the status stored in the
\* record is that word in upper case.
C23_CaseInsensitive ==
  LET s == doc.m.status.s
  IN /\ \A p \in Attempts :
          C23_Validated(p) =>
            ((att[p].reply = "NotEligible")
               <=> ~(\E w \in C23_Accepted : C23_SameWord(s, w)))
     /\ \A i \in 1..Len(verifications) :
          /\ verifications[i].status \in C23_Accepted
          /\ C23_SameWord(s, verifications[i].status)

\* a record with the status PAID has been stored for a document whose status
\* is the same word in mixed case
C23_Witness ==
  /\ Len(verifications) = 1
  /\ verifications[1].status = << "P", "A", "I", "D" >>
  /\ doc.m.status.s = << "P", "a", "i", "d" >>


(* ------------------------------------------------------------------ *)
(* C24                                                                 *)
(* ------------------------------------------------------------------ *)
\* the identifier a field holds: a non-empty text, or a number other than
\* zero written in decimal; nothing otherwise
C24_Identifier(v) ==
  IF v.k = "str" /\ v.s # << >> THEN Some(v.s)
  ELSE IF v.k = "num" /\ v.n # 0 THEN Some(NatToString(v.n))
  ELSE None

\* the product_id of the item, else its id, else its sku
C24_OfItem(it) ==
  IF C24_Identifier(Get(it, "product_id")) # None
  THEN C24_Identifier(Get(it, "product_id"))
  ELSE IF C24_Identifier(Get(it, "id")) # None
       THEN C24_Identifier(Get(it, "id"))
  ELSE C24_Identifier(Get(it, "sku"))

\* the product id the claim gives the document
C24_Expected(d) ==
  LET items == Get(d, "items")
  IN IF C24_Identifier(Get(d, "product_id")) # None
     THEN C24_Identifier(Get(d, "product_id"))
     ELSE IF items.k = "arr" /\ Len(items.a) > 0
          THEN C24_OfItem(items.a[1])
     ELSE None

\* C24: the product id an attempt goes on with, looks up in the role
\* mapping and stores, is the document's own product identifier when it is
\* present; otherwise the product_id, else the id, else the sku of the
\* first item of a non-empty items sequence; otherwise it is absent.  No
\* item after the first is consulted.
C24_ProductIdResolution ==
  /\ \A p \in Attempts :
       att[p].pc \in {"maplookup", "insert"} =>
         att[p].productId = C24_Expected(doc)
  /\ \A p \in Attempts :
       (att[p].pc = "maplookup" \/ "db.run" \in Range(att[p].calls)) =>
         ("db.get.role_mappings" \in Range(att[p].calls)
            <=> C24_Expected(doc) # None)
  /\ \A i \in 1..Len(verifications) :
       verifications[i].product_id = C24_Expected(doc)

\* a record has been stored with the id of the first item, which has no
\* product_id, while the second item has one
C24_Witness ==
  /\ Len(verifications) = 1
  /\ verifications[1].product_id = Some(pId)
  /\ IsArray(Get(doc, "items"))
  /\ Len(Get(doc, "items").a) = 2
  /\ "product_id" \notin DOMAIN Get(doc, "items").a[1].m
  /\ "sku" \in DOMAIN Get(doc, "items").a[1].m
  /\ Get(Get(doc, "items").a[2], "product_id") = Str(p2)


(* ------------------------------------------------------------------ *)
(* C25                                                                 *)
(* ------------------------------------------------------------------ *)
\* document.status is a mapping from which no status can be derived
C25_BarrenStatus(d) ==
  /\ Get(d, "status").k = "obj"
  /\ \A i \in 2..4 : C20_Rules(d)[i] = None

\* document.history is a non-empty sequence with no usable status entry
C25_BarrenHistory(d) ==
  /\ Get(d, "history").k = "arr"
  /\ Len(Get(d, "history").a) > 0
  /\ C20_Usable(Get(d, "history")) = {}

\* what the rules after the status rules yield: document.history, else
\* the fallback keys, else document.items
C25_AfterStatus(d) ==
  IF C20_Last(Get(d, "history")) # None THEN C20_Last(Get(d, "history"))
  ELSE IF C20_FallbackKeys(d) # None THEN C20_FallbackKeys(d)
  ELSE C20_First(Get(d, "items"))

\* what the rules after document.history yield
C25_AfterHistory(d) ==
  IF C20_FallbackKeys(d) # None THEN C20_FallbackKeys(d)
  ELSE C20_First(Get(d, "items"))

\* C25: no rule of extract is a dead end.  When document.status is a
\* mapping that yields no status, extract returns what document.history,
\* the fallback keys or document.items yield; when document.history is a
\* non-empty sequence without a usable entry (and no status rule matched),
\* it returns what the fallback keys or document.items yield.
C25_NoDeadEnd ==
  (extracted # << >> /\ doc.k = "obj") =>
    /\ C25_BarrenStatus(doc) => extracted[1].value = C25_AfterStatus(doc)
    /\ (C25_BarrenHistory(doc) /\ C21_NoneBefore(C20_Rules(doc), 5))
         => extracted[1].value = C25_AfterHistory(doc)

\* extract has returned the status of an item for a document whose status
\* is a mapping without a status and whose history has no usable entry
C25_Witness ==
  /\ extracted # << >>
  /\ doc.k = "obj"
  /\ C25_BarrenStatus(doc)
  /\ C25_BarrenHistory(doc)
  /\ C20_FallbackKeys(doc) = None
  /\ extracted[1].value # None
  /\ extracted[1].value = C20_First(Get(doc, "items"))


(* ------------------------------------------------------------------ *)
(* C26                                                                 *)
(* ------------------------------------------------------------------ *)
\* the table holds the record (invoiceId, user, roleId)
C26_Recorded(table, invoiceId, user, roleId) ==
  \E i \in 1..Len(table) :
    /\ table[i].invoice_id = invoiceId
    /\ table[i].discord_id = user
    /\ table[i].role_id = roleId

\* C26: member.roles.add is performed only after the record of the same
\* attempt has been committed.  An attempt that has called it has had its
\* own INSERT succeed and the table holds the record of its invoice and its
\* account, with the role it granted; every role a member was given is the
\* role_id of a record whose invoice and discord_id are those of the grant.
C26_RoleAfterRecord ==
  /\ \A m \in memberRoles :
       C26_Recorded(verifications, m.reason, m.member, m.role)
  /\ \A p \in Attempts :
       "roles.add" \in Range(att[p].calls) =>
         /\ att[p].inserted
         /\ \E i \in 1..Len(verifications) :
              /\ verifications[i].invoice_id = att[p].invoiceId
              /\ verifications[i].discord_id = att[p].user
              /\ att[p].reply = "Granted" =>
                   verifications[i].role_id = att[p].roleIdStr

\* two accounts were granted a role, each backed by its own record
C26_Witness ==
  /\ Cardinality(memberRoles) = 2
  /\ Len(verifications) = 2
  /\ \A m \in memberRoles :
       C26_Recorded(verifications, m.reason, m.member, m.role)


(* ------------------------------------------------------------------ *)
(* C27                                                                 *)
(* ------------------------------------------------------------------ *)
\* the attempt went on to role resolution: it looks up the role mapping,
\* has issued its INSERT, or found no role to use
C27_Proceeded(p) ==
  \/ att[p].pc = "maplookup"
  \/ "db.run" \in Range(att[p].calls)
  \/ att[p].reply = "NoRoleConfigured"

\* C27: for every fetched document whose status is accepted, product id
\* resolution yields a value or absent and the attempt proceeds to role
\* resolution and persistence; no shape of the items field makes it end in
\* an upstream-failure outcome.
C27_ItemsNeverFail ==
  \A p \in Attempts :
    (C23_Validated(p)
       /\ \E w \in C23_Accepted : C23_SameWord(doc.m.status.s, w)) =>
      /\ att[p].apiErr = None
      /\ att[p].reply \notin {"UpstreamUnavailable", "Unauthorized", "NotFound"}
      /\ C27_Proceeded(p)


(* ------------------------------------------------------------------ *)
(* C28                                                                 *)
(* ------------------------------------------------------------------ *)
\* a string that is empty or holds whitespace only
C28_BlankString(v) ==
  v.k = "str" /\ \A i \in 1..Len(v.s) : v.s[i] \in Whitespace

\* t is not empty and neither starts nor ends with whitespace
C28_Trimmed(t) ==
  /\ Len(t) > 0
  /\ t[1] \notin Whitespace
  /\ t[Len(t)] \notin Whitespace

\* t without the whitespace around it is u
C28_TrimsTo(t, u) ==
  \E i, j \in 1..Len(t) :
    /\ u = SubSeq(t, i, j)
    /\ \A l \in 1..Len(t) : (l < i \/ l > j) => t[l] \in Whitespace

\* the texts the document holds where extract looks for a status
C28_Candidates(d) ==
  LET st == Get(d, "status")
      at(v) == IF v.k = "str" THEN {v.s} ELSE {}
      inArray(v) == IF v.k = "arr"
                    THEN UNION { at(Get(v.a[i], "status")) : i \in 1..Len(v.a) }
                    ELSE {}
  IN at(st) \cup at(Get(st, "status")) \cup at(Get(Get(st, "status"), "status"))
       \cup inArray(Get(st, "history")) \cup inArray(Get(d, "history"))
       \cup UNION { at(Get(d, key)) \cup at(Get(Get(d, key), "status")) :
                    key \in Range(C22_Keys) }
       \cup inArray(Get(d, "items"))

\* C28: every value extract returns is a non-empty string without leading
\* or trailing whitespace, and it is one of the document's status texts
\* with the whitespace around it removed; an empty or whitespace-only
\* document.status does not match, the probe moves on to the next rules.
C28_TrimmedNonEmpty ==
  (extracted # << >> /\ doc.k = "obj") =>
    LET val == extracted[1].value
    IN /\ val # None =>
            /\ C28_Trimmed(val[1])
            /\ \E t \in C28_Candidates(doc) : C28_TrimsTo(t, val[1])
       /\ C28_BlankString(Get(doc, "status")) => val = C25_AfterStatus(doc)

\* extract has skipped a whitespace-only status and returned the status of
\* an item without the whitespace the item has around it
C28_Witness ==
  /\ extracted # << >>
  /\ doc.k = "obj"
  /\ Get(doc, "status") = Str(Blank)
  /\ extracted[1].value = Some(Text("i", "x"))
  /\ Padded(Text("i", "x")) \in C28_Candidates(doc)
  /\ Text("i", "x") \notin C28_Candidates(doc)


(* ------------------------------------------------------------------ *)
(* C29                                                                 *)
(* ------------------------------------------------------------------ *)
\* the time of the last accepted press of the account, if it has one:
\* neverPruned keeps it, C18 shows it is not affected by prunes
C29_LastAccepted(user) ==
  IF user \in DOMAIN neverPruned THEN Some(neverPruned[user]) ELSE None

\* the account presses the button and the press is accepted
C29_Accepted(user) ==
  /\ PressVerifyButton(user)
  /\ lastPress'.accepted

\* the account presses the button and the press is rejected
C29_Rejected(user) ==
  /\ PressVerifyButton(user)
  /\ ~lastPress'.accepted

\* a press of the button: accepted only 15 seconds or more after the last
\* accepted press of the same account; when rejected the stored timestamps
\* stay as they are; in both cases the entries of the other accounts, which
\* decide their presses, stay as they are
C29_PressStep ==
  \A user \in Range(Users) :
    /\ C29_Accepted(user) =>
         /\ C29_LastAccepted(user) # None =>
              clock - C29_LastAccepted(user)[1] >= 15 * 1000
         /\ buttonCooldown'[user] = clock
    /\ C29_Rejected(user) =>
         /\ buttonCooldown' = buttonCooldown
         /\ C29_LastAccepted(user) # None
         /\ clock - C29_LastAccepted(user)[1] < 15 * 1000
    /\ PressVerifyButton(user) =>
         \A other \in Range(Users) \ {user} :
           /\ (other \in DOMAIN buttonCooldown')
                <=> (other \in DOMAIN buttonCooldown)
           /\ LastPressOf(buttonCooldown', other)
                = LastPressOf(buttonCooldown, other)

\* the clock never goes back
C29_ClockStep == clock' >= clock

\* C29: with a non-decreasing clock, two accepted presses of the verify
\* button by the same account are at least 15 seconds apart, a rejected
\* press leaves the stored timestamp unchanged, and a press by one account
\* changes nothing of what decides the presses of another account.
C29_PerAccountCooldown == [][C29_ClockStep /\ C29_PressStep]_vars

\* a press was rejected 5 seconds after the accepted press of the same
\* account, whose timestamp is still the one of the accepted press, while the
\* other account has an entry of its own
C29_Witness ==
  /\ ~lastPress.accepted
  /\ lastPress.wait = 10
  /\ lastPress.user \in DOMAIN buttonCooldown
  /\ buttonCooldown[lastPress.user] = clock - 5 * 1000
  /\ \E other \in DOMAIN buttonCooldown :
       other # lastPress.user /\ buttonCooldown[other] = clock


(* ------------------------------------------------------------------ *)
(* C30: moderation commands act only for administrators and in range   *)
(* ------------------------------------------------------------------ *)

\* the invoker of command c holds the Administrator permission
C30_Administrator(c) == "Administrator" \in c.perms

\* the numeric argument of command c is in its range; untimeout and unban
\* take none, and an absent delete_days stands for 0
C30_InRange(c) ==
  CASE c.command = "purge"   -> c.arg[1] >= 1 /\ c.arg[1] <= 100
    [] c.command = "timeout" -> c.arg[1] >= 1 /\ c.arg[1] <= 40320
    [] c.command = "ban"     -> c.arg = None \/ (c.arg[1] >= 0 /\ c.arg[1] <= 7)
    [] OTHER                 -> TRUE

\* the error replies that refuse command c (purge looks at its target
\* channel before it looks at the count)
C30_Refusals(c) ==
  IF ~C30_Administrator(c) THEN { "Admin permissions required." }
  ELSE CASE c.command = "purge" ->
              { "Invalid target channel.", "Count must be between 1 and 100." }
         [] c.command = "timeout" -> { "Minutes must be between 1 and 40320." }
         [] c.command = "ban" -> { "delete_days must be between 0 and 7." }
         [] OTHER -> {}

\* command c deleted, timed out, banned or unbanned, or tried to
C30_Acted(c) ==
  \E i \in DOMAIN c.calls :
    c.calls[i].api \in { "bulkDelete", "msg.delete", "member.timeout",
                         "bans.create", "bans.remove" }

\* one moderation command is handled in this step
C30_Step ==
  LET c == moderation'.last IN
    /\ (C30_Acted(c) \/ moderation'.guild # moderation.guild)
         => C30_Administrator(c) /\ C30_InRange(c)
    /\ ~(C30_Administrator(c) /\ C30_InRange(c))
         => /\ c.reply \in C30_Refusals(c)
            /\ c.calls = << >>
            /\ moderation'.guild = moderation.guild

\* C30: each moderation command (purge, timeout, untimeout, ban, unban)
\* performs its platform action only when the invoker holds the
\* Administrator permission and its numeric argument is in range (purge
\* count 1..100, timeout minutes 1..40320, ban delete_days 0..7); otherwise
\* it replies with an error and deletes, times out or bans nothing.
C30_AdminAndRangeGuard == [][C30_Step]_vars

\* an administrator purged with the largest count allowed and messages were
\* deleted
C30_Witness ==
  /\ moderation.last.command = "purge"
  /\ "Administrator" \in moderation.last.perms
  /\ moderation.last.arg = Some(100)
  /\ \E i \in DOMAIN moderation.last.calls :
       moderation.last.calls[i].api = "bulkDelete"
  /\ moderation.guild.messages = 0

====
